---- MODULE Spec2Model ----
(***************************************************************************)
(* Event-driven backtesting kernel of mephisto_quant: the event bus        *)
(* (core/engine/event_engine.py), the portfolio / risk manager             *)
(* (core/portfolio/position.py), the execution handlers                    *)
(* (core/engine/execution.py), the backtest loop (bin/run_backtest.py,     *)
(* core/data/handler.py) and the Account model (core/backtesting).         *)
(*                                                                         *)
(* Money and prices are fixed-point integers, Unit units per currency      *)
(* unit; the code's float arithmetic is modelled as exact decimal          *)
(* arithmetic, a quotient that does not fit the fixed point is rounded     *)
(* down.  Fractions (rates, percentages) are pairs <<num, den>>.  Python   *)
(* dicts are functions on a subset of their key space, read with Get.      *)
(***************************************************************************)
EXTENDS Integers, Sequences, FiniteSets, TLC

VARIABLES queue, handlers, portfolio, execution, data_handler, account, pc, log, hist, active, current, backtest

vars == <<queue, handlers, portfolio, execution, data_handler, account, pc, log, hist, active, current, backtest>>

\* no SimpleBacktest has been constructed
NoBacktest == <<>>

(***************************************************************************)
(* Bounds and input domains                                                *)
(***************************************************************************)
Unit == 100

MaxBars == 2

MaxOps == 5

A_SHARE == "600036"

HK_SHARE == "00700"

symbol_list == <<A_SHARE, HK_SHARE>>

Symbols == {symbol_list[i] : i \in DOMAIN symbol_list}

Closes == {0, 8 * Unit, 10 * Unit, 12 * Unit}

SignalChoices == {"NONE", "LONG", "SHORT", "EXIT"}

(***************************************************************************)
(* Arithmetic helpers                                                      *)
(***************************************************************************)
Max(a, b) == IF a >= b THEN a ELSE b

Min(a, b) == IF a <= b THEN a ELSE b

Abs(a) == IF a < 0 THEN -a ELSE a

\* floor(x * f), f = <<num, den>>, x >= 0, without overflowing on x * num
FracMul(x, f) == (x \div f[2]) * f[1] + ((x % f[2]) * f[1]) \div f[2]

\* ceil(a / b) for a >= 0, b > 0 (math.ceil)
CeilDiv(a, b) == (a + b - 1) \div b

RECURSIVE GCD(_, _)
GCD(a, b) == IF b = 0 THEN a ELSE GCD(b, a % b)

\* the rational n / d (d > 0) in lowest terms
Rat(n, d) == LET g == GCD(Abs(n), d) IN [n |-> n \div g, d |-> d \div g]

Zero == [n |-> 0, d |-> 1]

RECURSIVE SumOver(_, _)
SumOver(S, f) == IF S = {} THEN 0 ELSE LET x == CHOOSE y \in S : TRUE IN f[x] + SumOver(S \ {x}, f)

(***************************************************************************)
(* dict helpers                                                            *)
(***************************************************************************)
Get(d, k, default) == IF k \in DOMAIN d THEN d[k] ELSE default

Set(d, k, v) == [x \in (DOMAIN d) \cup {k} |-> IF x = k THEN v ELSE d[x]]

Pop(d, k) == [x \in (DOMAIN d) \ {k} |-> d[x]]

EmptyDict == [x \in {} |-> 0]

(***************************************************************************)
(* Events (core/engine/event.py)                                           *)
(* reserved is a history field: what create_order reserved for the order,  *)
(* copied by the execution handler into the fill it produces.              *)
(***************************************************************************)
MarketEvent(symbol, close, name) == [type |-> "MARKET", symbol |-> symbol, close |-> close, name |-> name]

SignalEvent(symbol, signal_type) == [type |-> "SIGNAL", symbol |-> symbol, signal_type |-> signal_type]

OrderEvent(symbol, quantity, direction, reserved) == [type |-> "ORDER", symbol |-> symbol, order_type |-> "MARKET", quantity |-> quantity, direction |-> direction, reserved |-> reserved]

FillEvent(symbol, datetime, quantity, direction, fill_cost, commission, reserved) == [type |-> "FILL", symbol |-> symbol, datetime |-> datetime, quantity |-> quantity, direction |-> direction, fill_cost |-> fill_cost, commission |-> commission, reserved |-> reserved]

EventTypes == {"MARKET", "SIGNAL", "ORDER", "FILL"}

(***************************************************************************)
(* EventEngine.put: append to the tail of the single queue.  w is the      *)
(* session: [queue, portfolio, execution, log].                            *)
(***************************************************************************)
put(w, event) == [w EXCEPT !.queue = Append(@, event)]

(***************************************************************************)
(* Portfolio (core/portfolio/position.py).  The portfolio state pf is a    *)
(* record of the attributes set by Portfolio.__init__ and                  *)
(* NaivePortfolio.__init__.                                                *)
(***************************************************************************)
\* Portfolio.__init__ and NaivePortfolio.__init__: the books and the risk parameters
NewPortfolio(initial_capital) ==
  [current_cash |-> initial_capital, locked_cash |-> 0, current_positions |-> EmptyDict, pending_sells |-> EmptyDict,
   latest_prices |-> EmptyDict, all_holdings |-> <<>>, trade_history |-> <<>>,
   max_single_pos_pct |-> <<1, 5>>, allow_short |-> FALSE, buy_pct |-> <<1, 5>>, sell_pct |-> <<1, 5>>,
   stop_loss_pct |-> <<1, 10>>, take_profit_pct |-> <<3, 10>>, trailing_stop_pct |-> <<3, 20>>,
   position_costs |-> EmptyDict, high_water_marks |-> EmptyDict]

\* the portfolio of run_backtest: initial_capital = 500000.0 and the risk parameters it sets
BacktestPortfolio ==
  [NewPortfolio(500000 * Unit) EXCEPT !.max_single_pos_pct = <<3, 10>>, !.allow_short = FALSE, !.buy_pct = <<1, 1>>, !.sell_pct = <<1, 1>>,
                                      !.stop_loss_pct = <<1, 10>>, !.take_profit_pct = <<3, 10>>, !.trailing_stop_pct = <<1, 20>>]

\* the portfolio of TestNaivePortfolio.setUp
TestPortfolio ==
  [NewPortfolio(100000 * Unit) EXCEPT !.stop_loss_pct = <<1, 10>>, !.trailing_stop_pct = <<1, 10>>, !.take_profit_pct = <<10, 1>>,
                                      !.buy_pct = <<1, 2>>, !.sell_pct = <<1, 1>>]

get_available_cash(pf) == pf.current_cash - pf.locked_cash

get_available_position_unreserved(pf, symbol) == Get(pf.current_positions, symbol, 0)

get_available_position(pf, symbol) == Get(pf.current_positions, symbol, 0) - Get(pf.pending_sells, symbol, 0)

\* current_cash + sum(current_positions.get(s, 0) * latest_prices.get(s, 0) for s in current_positions)
total_assets(pf) == pf.current_cash + SumOver(DOMAIN pf.current_positions, [s \in DOMAIN pf.current_positions |-> pf.current_positions[s] * Get(pf.latest_prices, s, 0)])

\* v > x * f for a fraction f, compared without rounding
ExceedsFrac(v, x, f) == v * f[2] > x * f[1]

validate_buy_without_cap(pf, symbol, price, quantity) ==
  price > 0 /\ quantity > 0 /\ get_available_cash(pf) >= price * quantity

validate_buy(pf, symbol, price, quantity) ==
  LET estimated_cost == price * quantity
      available_cash == get_available_cash(pf)
      assets == total_assets(pf)
      current_pos_val == Get(pf.current_positions, symbol, 0) * price
      target_pos_val == current_pos_val + estimated_cost
  IN IF price <= 0 THEN FALSE
     ELSE IF quantity <= 0 THEN FALSE
     ELSE IF available_cash < estimated_cost THEN FALSE
     ELSE IF assets > 0 /\ ExceedsFrac(target_pos_val, assets, pf.max_single_pos_pct) THEN FALSE
     ELSE TRUE

validate_sell(pf, symbol, quantity) ==
  LET available_pos == get_available_position(pf, symbol)
  IN IF quantity <= 0 THEN FALSE
     ELSE IF ~pf.allow_short /\ available_pos < quantity THEN FALSE
     ELSE TRUE

create_order(w, symbol, direction, quantity, price_snapshot) ==
  LET pf == w.portfolio
  IN IF direction = "BUY" /\ validate_buy(pf, symbol, price_snapshot, quantity)
       THEN put([w EXCEPT !.portfolio.locked_cash = @ + quantity * price_snapshot],
                OrderEvent(symbol, quantity, direction, quantity * price_snapshot))
     ELSE IF direction = "SELL" /\ validate_sell(pf, symbol, quantity)
       THEN put([w EXCEPT !.portfolio.pending_sells = Set(@, symbol, Get(@, symbol, 0) + quantity)],
                OrderEvent(symbol, quantity, direction, quantity))
     ELSE w

record_holdings_cash_only(pf, dt) ==
  LET holdings == [datetime |-> dt, cash |-> pf.current_cash, market_value |-> 0, total |-> pf.current_cash, pos |-> pf.current_positions]
  IN [pf EXCEPT !.all_holdings = Append(@, holdings)]

record_holdings(pf, dt) ==
  LET held == {s \in DOMAIN pf.current_positions : pf.current_positions[s] > 0}
      market_value == SumOver(held, [s \in held |-> pf.current_positions[s] * Get(pf.latest_prices, s, 0)])
      holdings == [datetime |-> dt, cash |-> pf.current_cash, market_value |-> market_value, total |-> pf.current_cash + market_value, pos |-> pf.current_positions]
  IN [pf EXCEPT !.all_holdings = Append(@, holdings)]

generate_exit_order(w, symbol) ==
  LET pf == w.portfolio
      available_pos == get_available_position(pf, symbol)
  IN IF available_pos > 0
       THEN create_order(w, symbol, "SELL", available_pos, 0)
     ELSE IF Get(pf.current_positions, symbol, 0) < 0 /\ pf.allow_short
       THEN create_order(w, symbol, "BUY", Abs(Get(pf.current_positions, symbol, 0)), Get(pf.latest_prices, symbol, 0))
     ELSE w

ReturnBelowMinus(pos, price, cost, f) ==
  IF pos > 0 THEN (price * cost.d - cost.n) * f[2] < -(f[1] * cost.n)
             ELSE (cost.n - price * cost.d) * f[2] < -(f[1] * cost.n)

\* returns <= -f, returns = (price - cost) / cost for a long position, cost = n/d > 0
ReturnAtMostMinus(pos, price, cost, f) ==
  IF pos > 0 THEN (price * cost.d - cost.n) * f[2] <= -(f[1] * cost.n)
             ELSE (cost.n - price * cost.d) * f[2] <= -(f[1] * cost.n)

ReturnAtLeast(pos, price, cost, f) ==
  IF pos > 0 THEN (price * cost.d - cost.n) * f[2] >= f[1] * cost.n
             ELSE (cost.n - price * cost.d) * f[2] >= f[1] * cost.n

ReturnPositive(pos, price, cost) == IF pos > 0 THEN price * cost.d > cost.n ELSE cost.n > price * cost.d

risk_exit_rule_take_profit_first(pf, symbol, current_price) ==
  LET pos == Get(pf.current_positions, symbol, 0)
      avg_cost == Get(pf.position_costs, symbol, Zero)
      high_mark == IF symbol \in DOMAIN pf.high_water_marks THEN Rat(pf.high_water_marks[symbol], 1) ELSE avg_cost
  IN IF pos = 0 THEN "none"
     ELSE IF avg_cost.n = 0 THEN "none"
     ELSE IF ReturnAtMostMinus(pos, current_price, avg_cost, pf.stop_loss_pct) THEN "stop_loss"
     ELSE IF pf.take_profit_pct[1] < 10 * pf.take_profit_pct[2] /\ ReturnAtLeast(pos, current_price, avg_cost, pf.take_profit_pct) THEN "take_profit"
     ELSE IF /\ high_mark.n > 0
             /\ (high_mark.n - current_price * high_mark.d) * pf.trailing_stop_pct[2] >= pf.trailing_stop_pct[1] * high_mark.n
             /\ ReturnPositive(pos, current_price, avg_cost) THEN "trailing_stop"
     ELSE "none"

\* which rule of _check_risk_exit fires (the [RiskControl] line it prints): the sequential
\* if chain, first match wins
risk_exit_rule(pf, symbol, current_price) ==
  LET pos == Get(pf.current_positions, symbol, 0)
      avg_cost == Get(pf.position_costs, symbol, Zero)
      high_mark == IF symbol \in DOMAIN pf.high_water_marks THEN Rat(pf.high_water_marks[symbol], 1) ELSE avg_cost
  IN IF pos = 0 THEN "none"
     ELSE IF avg_cost.n = 0 THEN "none"
     ELSE IF ReturnAtMostMinus(pos, current_price, avg_cost, pf.stop_loss_pct) THEN "stop_loss"
     ELSE IF /\ high_mark.n > 0
             /\ (high_mark.n - current_price * high_mark.d) * pf.trailing_stop_pct[2] >= pf.trailing_stop_pct[1] * high_mark.n
             /\ ReturnPositive(pos, current_price, avg_cost) THEN "trailing_stop"
     ELSE IF pf.take_profit_pct[1] < 10 * pf.take_profit_pct[2] /\ ReturnAtLeast(pos, current_price, avg_cost, pf.take_profit_pct) THEN "take_profit"
     ELSE "none"

check_risk_exit(w, symbol, current_price) ==
  IF risk_exit_rule(w.portfolio, symbol, current_price) = "none" THEN w ELSE generate_exit_order(w, symbol)

update_market_value(w, event) ==
  LET symbol == event.symbol
      close_price == event.close
      pf1 == [w.portfolio EXCEPT !.latest_prices = Set(@, symbol, close_price)]
      pf2 == IF Get(pf1.current_positions, symbol, 0) > 0 /\ close_price > Get(pf1.high_water_marks, symbol, 0)
               THEN [pf1 EXCEPT !.high_water_marks = Set(@, symbol, close_price)]
               ELSE pf1
      w3 == check_risk_exit([w EXCEPT !.portfolio = pf2], symbol, close_price)
  IN [w3 EXCEPT !.portfolio = record_holdings(@, event.name)]

\* Long sizing of update_signal: lots from buy_pct of the available cash, at least one lot
\* when affordable, then the headroom under max_single_pos_pct of the total assets
buy_quantity_without_minimum_lot(pf, symbol, price) ==
  LET available_cash == get_available_cash(pf)
      q1 == (FracMul(available_cash, pf.buy_pct) \div (price * 100)) * 100
      assets == total_assets(pf)
      curr_pos_val == Get(pf.current_positions, symbol, 0) * price
      headroom_n == Max(0, assets * pf.max_single_pos_pct[1] - curr_pos_val * pf.max_single_pos_pct[2])
  IN IF ExceedsFrac(curr_pos_val + q1 * price, assets, pf.max_single_pos_pct)
       THEN (headroom_n \div (pf.max_single_pos_pct[2] * price * 100)) * 100
       ELSE q1

buy_quantity(pf, symbol, price) ==
  LET available_cash == get_available_cash(pf)
      raw_lots == FracMul(available_cash, pf.buy_pct) \div (price * 100)
      q0 == raw_lots * 100
      q1 == IF q0 < 100 /\ available_cash >= price * 100 THEN 100 ELSE q0
      assets == total_assets(pf)
      curr_pos_val == Get(pf.current_positions, symbol, 0) * price
      headroom_n == Max(0, assets * pf.max_single_pos_pct[1] - curr_pos_val * pf.max_single_pos_pct[2])
  IN IF ExceedsFrac(curr_pos_val + q1 * price, assets, pf.max_single_pos_pct)
       THEN (headroom_n \div (pf.max_single_pos_pct[2] * price * 100)) * 100
       ELSE q1

\* Short sizing of update_signal (available_pos > 0)
sell_quantity(pf, symbol) ==
  LET available_pos == get_available_position(pf, symbol)
      q0 == (FracMul(Get(pf.current_positions, symbol, 0), pf.sell_pct) \div 100) * 100
      q1 == IF q0 > available_pos THEN (available_pos \div 100) * 100 ELSE q0
  IN IF q1 < 100 /\ available_pos >= 100 THEN 100 ELSE q1

update_signal(w, event) ==
  LET pf == w.portfolio
      symbol == event.symbol
      price == Get(pf.latest_prices, symbol, 0)
  IN IF event.signal_type = "EXIT" THEN generate_exit_order(w, symbol)
     ELSE IF event.signal_type = "LONG"
       THEN IF price <= 0 THEN w
            ELSE IF get_available_cash(pf) <= 0 THEN w
            ELSE IF buy_quantity(pf, symbol, price) > 0
              THEN create_order(w, symbol, "BUY", buy_quantity(pf, symbol, price), price)
            ELSE w
     ELSE IF get_available_position(pf, symbol) > 0
       THEN IF sell_quantity(pf, symbol) > 0
              THEN create_order(w, symbol, "SELL", sell_quantity(pf, symbol), price)
            ELSE w
     ELSE w

\* if self.locked_cash >= estimated_locked: locked_cash -= estimated_locked, else 0
unlock_cash(locked_cash, estimated_locked) == IF locked_cash >= estimated_locked THEN locked_cash - estimated_locked ELSE 0

\* if pending >= event.quantity: pending - quantity, else 0
unlock_position(pending, quantity) == IF pending >= quantity THEN pending - quantity ELSE 0

clamp_position_missing(new_pos) == new_pos

\* if new_pos < 0: new_pos = 0
clamp_position(new_pos) == IF new_pos < 0 THEN 0 ELSE new_pos

average_cost_of_last_lot(curr_pos, curr_cost, fill_cost, new_pos) == Rat(fill_cost, new_pos - curr_pos)

\* (curr_pos * curr_cost + fill_cost) / new_pos, the common factor of curr_pos and the
\* denominator of curr_cost cancelled before multiplying
average_cost(curr_pos, curr_cost, fill_cost, new_pos) ==
  LET g == GCD(Abs(curr_pos), curr_cost.d)
  IN Rat((curr_pos \div g) * curr_cost.n + fill_cost * (curr_cost.d \div g), (curr_cost.d \div g) * new_pos)

buy_total_cost_without_commission(fill_cost, commission) == fill_cost

\* total_cost = fill_cost + event.commission
buy_total_cost(fill_cost, commission) == fill_cost + commission

buy_high_water_mark_of_last_fill(curr_pos, current_high, fill_cost) == fill_cost

\* the mark after a buy fill: the fill price on entry, else the larger of the mark and the fill price
buy_high_water_mark(curr_pos, current_high, fill_cost) == IF curr_pos = 0 THEN fill_cost ELSE Max(current_high, fill_cost)

update_fill_buy(pf, event) ==
  LET symbol == event.symbol
      curr_pos == Get(pf.current_positions, symbol, 0)
      curr_cost == Get(pf.position_costs, symbol, Zero)
      fill_cost == event.quantity * event.fill_cost
      total_cost == buy_total_cost(fill_cost, event.commission)
      new_pos == curr_pos + event.quantity
      tracked == new_pos > 0 /\ curr_pos >= 0
      trade_record == [datetime |-> event.datetime, symbol |-> symbol, direction |-> "BUY", price |-> event.fill_cost, quantity |-> event.quantity, commission |-> event.commission, cash_before |-> pf.current_cash, realized_pnl |-> Zero, pnl_pct |-> Zero, cash_after |-> pf.current_cash - total_cost]
  IN [pf EXCEPT !.locked_cash = unlock_cash(@, fill_cost),
                !.current_cash = @ - total_cost,
                !.position_costs = IF tracked THEN Set(@, symbol, average_cost(curr_pos, curr_cost, fill_cost, new_pos)) ELSE @,
                !.high_water_marks = IF ~tracked THEN @ ELSE Set(@, symbol, buy_high_water_mark(curr_pos, Get(@, symbol, 0), event.fill_cost)),
                !.current_positions = Set(@, symbol, new_pos),
                !.trade_history = Append(@, trade_record)]

update_fill_sell(pf, event) ==
  LET symbol == event.symbol
      curr_pos == Get(pf.current_positions, symbol, 0)
      curr_cost == Get(pf.position_costs, symbol, Zero)
      fill_cost == event.quantity * event.fill_cost
      g == GCD(event.quantity, curr_cost.d)
      realized_pnl == Rat((event.fill_cost * curr_cost.d - curr_cost.n) * (event.quantity \div g) - event.commission * (curr_cost.d \div g), curr_cost.d \div g)
      pnl_pct == IF curr_cost.n > 0 THEN Rat(event.fill_cost * curr_cost.d - curr_cost.n, curr_cost.n) ELSE Zero
      new_pos == clamp_position(curr_pos - event.quantity)
      trade_record == [datetime |-> event.datetime, symbol |-> symbol, direction |-> "SELL", price |-> event.fill_cost, quantity |-> event.quantity, commission |-> event.commission, cash_before |-> pf.current_cash, realized_pnl |-> realized_pnl, pnl_pct |-> pnl_pct, cash_after |-> pf.current_cash + (fill_cost - event.commission)]
  IN [pf EXCEPT !.current_cash = @ + (fill_cost - event.commission),
                !.pending_sells = Set(@, symbol, unlock_position(Get(@, symbol, 0), event.quantity)),
                !.position_costs = IF new_pos = 0 THEN Set(@, symbol, Zero) ELSE @,
                !.high_water_marks = IF new_pos = 0 THEN Pop(@, symbol) ELSE @,
                !.current_positions = Set(@, symbol, new_pos),
                !.trade_history = Append(@, trade_record)]

update_fill(w, event) ==
  IF event.direction = "BUY" THEN [w EXCEPT !.portfolio = update_fill_buy(@, event)]
  ELSE [w EXCEPT !.portfolio = update_fill_sell(@, event)]

(***************************************************************************)
(* Execution handlers (core/engine/execution.py).  A handler state is      *)
(* [latest_prices, current_time]; the composite handler owns one of its    *)
(* own and one per market.  current_time starts as the wall clock (-1).    *)
(***************************************************************************)
commission_rate == <<3, 10000>>

min_commission == 5 * Unit

stamp_duty_rate == <<1, 2000>>

transfer_fee_rate == <<1, 100000>>

exchange_rate == <<23, 25>>

exchange_slippage == <<1, 500>>

hk_stamp_duty_rate == <<1, 1000>>

hk_reg_fee_rate == <<17, 200000>>

NewHandler == [latest_prices |-> EmptyDict, current_time |-> -1]

NewExecution == [latest_prices |-> EmptyDict, current_time |-> -1, a_share_handler |-> NewHandler, hk_share_handler |-> NewHandler]

\* the name of a market event whose data is a dict with no "date" key: it has no timestamp
NoTimestamp == -100

\* ExecutionHandler.update_price: current_time is replaced only when the data carries a timestamp
update_price(h, event) ==
  [h EXCEPT !.latest_prices = Set(@, event.symbol, event.close),
            !.current_time = IF event.name = NoTimestamp THEN @ ELSE event.name]

\* the composite handler constructed when the wall clock reads now
ExecutionAt(now) == [NewExecution EXCEPT !.current_time = now, !.a_share_handler.current_time = now, !.hk_share_handler.current_time = now]

\* CompositeExecutionHandler.update_price
composite_update_price(w, event) ==
  [w EXCEPT !.execution = [update_price(@, event) EXCEPT !.a_share_handler = update_price(@, event), !.hk_share_handler = update_price(@, event)]]

\* the domestic fee model: commission both ways, stamp duty on sells, transfer fee both ways
china_transaction_cost(direction, trade_value) ==
  LET commission == Max(min_commission, FracMul(trade_value, commission_rate))
      stamp_duty == IF direction = "SELL" THEN FracMul(trade_value, stamp_duty_rate) ELSE 0
      transfer_fee == FracMul(trade_value, transfer_fee_rate)
  IN commission + stamp_duty + transfer_fee

china_execute_order_any_quantity(w, event) ==
  LET fill_price == Get(w.execution.a_share_handler.latest_prices, event.symbol, 0)
  IN IF fill_price = 0 THEN w
     ELSE put(w, FillEvent(event.symbol, w.execution.a_share_handler.current_time, event.quantity, event.direction, fill_price, china_transaction_cost(event.direction, fill_price * event.quantity), event.reserved))

\* ChinaStockExecutionHandler.execute_order
china_execute_order(w, event) ==
  LET fill_price == Get(w.execution.a_share_handler.latest_prices, event.symbol, 0)
      trade_value == fill_price * event.quantity
  IN IF event.direction = "BUY" /\ event.quantity % 100 # 0 THEN w
     ELSE IF fill_price = 0 THEN w
     ELSE put(w, FillEvent(event.symbol, w.execution.a_share_handler.current_time, event.quantity, event.direction, fill_price, china_transaction_cost(event.direction, trade_value), event.reserved))

\* price_cny = price_hkd * exchange_rate
hk_price_cny(price_hkd) == FracMul(price_hkd, exchange_rate)

\* the cross-border fee model: FX slippage and commission on the converted value,
\* stamp duty rounded up to a whole HKD before conversion, regulatory fees
hk_transaction_cost(price_hkd, quantity) ==
  LET trade_value_cny == hk_price_cny(price_hkd) * quantity
      exchange_cost == FracMul(trade_value_cny, exchange_slippage)
      commission_cny == Max(5 * Unit, FracMul(trade_value_cny, commission_rate))
      stamp_duty_hkd == CeilDiv(price_hkd * quantity * hk_stamp_duty_rate[1], hk_stamp_duty_rate[2] * Unit) * Unit
      stamp_duty_cny == FracMul(stamp_duty_hkd, exchange_rate)
      reg_fees_cny == FracMul(FracMul(price_hkd * quantity, hk_reg_fee_rate), exchange_rate)
  IN commission_cny + stamp_duty_cny + reg_fees_cny + exchange_cost

hk_execute_order_unpriced(w, event) ==
  LET price_hkd == Get(w.execution.hk_share_handler.latest_prices, event.symbol, 0)
  IN IF Len(event.symbol) # 5 THEN w
     ELSE put(w, FillEvent(event.symbol, w.execution.hk_share_handler.current_time, event.quantity, event.direction, hk_price_cny(price_hkd), hk_transaction_cost(price_hkd, event.quantity), event.reserved))

\* HongKongStockConnectExecutionHandler.execute_order
hk_execute_order(w, event) ==
  LET price_hkd == Get(w.execution.hk_share_handler.latest_prices, event.symbol, 0)
  IN IF Len(event.symbol) # 5 THEN w
     ELSE IF price_hkd = 0 THEN w
     ELSE put(w, FillEvent(event.symbol, w.execution.hk_share_handler.current_time, event.quantity, event.direction, hk_price_cny(price_hkd), hk_transaction_cost(price_hkd, event.quantity), event.reserved))

route_on_leading_zero(event) == IF SubSeq(event.symbol, 1, 1) = "0" THEN "hk_share_handler" ELSE "a_share_handler"

\* the sub-handler CompositeExecutionHandler.execute_order hands the order to
route(event) == IF Len(event.symbol) = 5 THEN "hk_share_handler" ELSE "a_share_handler"

\* CompositeExecutionHandler.execute_order: route on the length of the symbol code
composite_execute_order(w, event) ==
  IF route(event) = "hk_share_handler" THEN hk_execute_order(w, event) ELSE china_execute_order(w, event)

(***************************************************************************)
(* Handlers and dispatch (EventEngine.__process).  A handler is named by   *)
(* the bound method registered for it; sig is the signal the external      *)
(* strategy decides to raise on this market event ("NONE": no signal).     *)
(***************************************************************************)
calculate_signals_twice(w, event, sig) == IF sig = "NONE" THEN w ELSE put(put(w, SignalEvent(event.symbol, sig)), SignalEvent(event.symbol, sig))

calculate_signals(w, event, sig) == IF sig = "NONE" THEN w ELSE put(w, SignalEvent(event.symbol, sig))

Call(h, w, event, sig) ==
  CASE h = "strategy.calculate_signals" -> calculate_signals(w, event, sig)
    [] h = "portfolio.update_market_value" -> update_market_value(w, event)
    [] h = "execution.update_price" -> composite_update_price(w, event)
    [] h = "portfolio.update_signal" -> update_signal(w, event)
    [] h = "execution.execute_order" -> composite_execute_order(w, event)
    [] h = "portfolio.update_fill" -> update_fill(w, event)
    [] OTHER -> [w EXCEPT !.log = Append(@, [handler |-> h, event |-> event])]

RECURSIVE call_handlers(_, _, _, _)
call_handlers(hs, w, event, sig) ==
  IF hs = <<>> THEN w ELSE call_handlers(Tail(hs), Call(Head(hs), w, event, sig), event, sig)

\* for handler in self.__handlers[event.type]: handler(event)
process(hreg, w, event, sig) == IF event.type \in DOMAIN hreg THEN call_handlers(hreg[event.type], w, event, sig) ELSE w

InSeq(x, seq) == \E i \in DOMAIN seq : seq[i] = x

RemoveFirst(seq, x) ==
  LET i == CHOOSE j \in DOMAIN seq : seq[j] = x /\ \A k \in 1..(j - 1) : seq[k] # x
  IN SubSeq(seq, 1, i - 1) \o SubSeq(seq, i + 1, Len(seq))

register_unchecked(hreg, type, handler) == [hreg EXCEPT ![type] = Append(@, handler)]

\* EventEngine.register
register(hreg, type, handler) == IF ~InSeq(handler, hreg[type]) THEN [hreg EXCEPT ![type] = Append(@, handler)] ELSE hreg

\* EventEngine.unregister
unregister(hreg, type, handler) == IF InSeq(handler, hreg[type]) THEN [hreg EXCEPT ![type] = RemoveFirst(@, handler)] ELSE hreg

NoHandlers == [t \in EventTypes |-> <<>>]

\* the registrations of run_backtest, in its order
WiredHandlers ==
  register(register(register(register(register(register(NoHandlers,
    "MARKET", "strategy.calculate_signals"),
    "MARKET", "portfolio.update_market_value"),
    "MARKET", "execution.update_price"),
    "SIGNAL", "portfolio.update_signal"),
    "ORDER", "execution.execute_order"),
    "FILL", "portfolio.update_fill")

(***************************************************************************)
(* BacktestDataHandler (core/data/handler.py).  symbol_data[s] is the      *)
(* number of bars of the symbol's CSV, consumed[s] how many its generator  *)
(* has yielded; the close of a bar is read when the bar is pushed and its  *)
(* timestamp (the row name) is its ordinal.                                *)
(***************************************************************************)
RECURSIVE push_bars(_, _, _, _)
push_bars(i, dh, q, closes) ==
  IF i > Len(symbol_list) THEN [dh |-> dh, q |-> q]
  ELSE LET s == symbol_list[i]
       IN IF dh.consumed[s] < dh.symbol_data[s]
            THEN push_bars(i + 1, [dh EXCEPT !.consumed[s] = @ + 1], Append(q, MarketEvent(s, closes[s], dh.consumed[s] + 1)), closes)
            ELSE push_bars(i + 1, dh, q, closes)

\* update_bars: any_data_left stays False when no generator yields
update_bars(dh, q, closes) ==
  LET r == push_bars(1, dh, q, closes)
  IN IF r.q = q THEN [dh |-> [r.dh EXCEPT !.continue_backtest = FALSE], q |-> r.q] ELSE r

\* no Account is constructed by run_backtest
NoAccount == [cash |-> 0, positions |-> EmptyDict]

World == [queue |-> queue, portfolio |-> portfolio, execution |-> execution, log |-> log]

(***************************************************************************)
(* Spec: run_backtest.  pc is the position in the loop                     *)
(*   while data_handler.continue_backtest:                                 *)
(*       data_handler.update_bars(); engine.process_all_events()           *)
(* hist is history only: step counts the calls of update_bars, fills_put   *)
(* the Fill events put on the queue, rejected the orders for which the     *)
(* execution handler put no Fill.                                          *)
(***************************************************************************)
Init ==
  /\ queue = <<>>
  /\ active = FALSE
  /\ backtest = NoBacktest
  /\ current = <<>>
  /\ handlers = WiredHandlers
  /\ portfolio = BacktestPortfolio
  /\ execution = NewExecution
  /\ data_handler \in {[symbol_data |-> sd, consumed |-> [s \in Symbols |-> 0], continue_backtest |-> TRUE] : sd \in [Symbols -> 1..MaxBars]}
  /\ account = NoAccount
  /\ pc = "loop"
  /\ log = <<>>
  /\ hist = [step |-> 0, fills_put |-> 0, rejected |-> 0]

UpdateBars ==
  /\ pc = "loop"
  /\ data_handler.continue_backtest
  /\ \E closes \in [Symbols -> Closes] :
       LET r == update_bars(data_handler, queue, closes)
       IN /\ data_handler' = r.dh
          /\ queue' = r.q
  /\ pc' = "drain"
  /\ hist' = [hist EXCEPT !.step = @ + 1]
  /\ UNCHANGED <<backtest, active, current, handlers, portfolio, execution, log, account>>

queue_empty_early(q) == Len(q) <= 1

\* while not self.__queue.empty()
queue_empty(q) == q = <<>>

\* the events a dispatch appended to the queue whose head it took
Appended(q, q2) == SubSeq(q2, Len(q), Len(q2))

CountType(seq, type) == Cardinality({i \in DOMAIN seq : seq[i].type = type})

\* one iteration of process_all_events: get the head and dispatch it
ProcessEvent ==
  /\ pc = "drain"
  /\ ~queue_empty(queue)
  /\ \E sig \in (IF Head(queue).type = "MARKET" THEN SignalChoices ELSE {"NONE"}) :
       LET w == process(handlers, [World EXCEPT !.queue = Tail(queue)], Head(queue), sig)
       IN /\ queue' = w.queue
          /\ portfolio' = w.portfolio
          /\ execution' = w.execution
          /\ log' = w.log
          /\ hist' = [hist EXCEPT !.fills_put = @ + CountType(Appended(queue, w.queue), "FILL"),
                                  !.rejected = @ + (IF Head(queue).type = "ORDER" /\ CountType(Appended(queue, w.queue), "FILL") = 0 THEN 1 ELSE 0)]
  /\ UNCHANGED <<backtest, active, current, handlers, data_handler, pc, account>>

\* process_all_events returns
ProcessAllReturn ==
  /\ pc = "drain"
  /\ queue_empty(queue)
  /\ pc' = "loop"
  /\ UNCHANGED <<backtest, active, current, queue, handlers, portfolio, execution, data_handler, log, hist, account>>

\* the while condition is false
Finish ==
  /\ pc = "loop"
  /\ ~data_handler.continue_backtest
  /\ pc' = "done"
  /\ UNCHANGED <<backtest, active, current, queue, handlers, portfolio, execution, data_handler, log, hist, account>>

Next == UpdateBars \/ ProcessEvent \/ ProcessAllReturn \/ Finish

Spec == Init /\ [][Next]_vars

(***************************************************************************)
(* Properties of the wired backtest loop                                   *)
(***************************************************************************)
HeadIs(type) == pc = "drain" /\ queue # <<>> /\ Head(queue).type = type

\* C1: reservation round trip.  When the Fill of an accepted order is applied, update_fill
\* releases exactly what create_order reserved for it: locked_cash drops by the order's
\* quantity * price_snapshot (buy), pending_sells[symbol] by the order's quantity (sell).
C1_RoundTrip ==
  [][HeadIs("FILL") =>
       LET f == Head(queue)
       IN IF f.direction = "BUY"
            THEN portfolio'.locked_cash = portfolio.locked_cash - f.reserved
            ELSE Get(portfolio'.pending_sells, f.symbol, 0) = Get(portfolio.pending_sells, f.symbol, 0) - f.reserved]_vars

\* C3: a rejection resolves the reservation.  Once a drain in which the execution handler
\* rejected an order has ended, no share is left reserved in pending_sells.
C3_RejectionReleases ==
  (pc = "loop" /\ hist.rejected > 0) => \A s \in Symbols : Get(portfolio.pending_sells, s, 0) = 0

\* C4: step isolation.  Between two steps the queue is empty and every Fill put so far has
\* been applied to the portfolio; inside a drain every Market event and every Fill on the
\* queue belongs to the current step.
C4_StepIsolation ==
  /\ pc = "loop" => (queue = <<>> /\ Len(portfolio.trade_history) = hist.fills_put)
  /\ \A i \in DOMAIN queue :
       /\ queue[i].type = "MARKET" => queue[i].name = hist.step
       /\ queue[i].type = "FILL" => queue[i].datetime = hist.step

C4_Witness == pc = "loop" /\ hist.step = 1 /\ Len(portfolio.trade_history) >= 1 /\ data_handler.continue_backtest

(***************************************************************************)
(* verify_trades (verify_trades.py): replay of the trade log from the      *)
(* initial capital it assumes; ok tells that no row was reported.          *)
(***************************************************************************)
RECURSIVE verify_rows(_, _, _)
verify_rows(rows, calculated_cash, ok) ==
  IF rows = <<>> THEN [ok |-> ok, calculated_cash |-> calculated_cash]
  ELSE LET row == Head(rows)
           trade_amount == row.price * row.quantity
           cash_change == IF row.direction = "BUY" THEN -(trade_amount + row.commission) ELSE trade_amount - row.commission
       IN verify_rows(Tail(rows), calculated_cash + cash_change,
                      ok /\ calculated_cash = row.cash_before /\ calculated_cash + cash_change = row.cash_after)

verify_trades(rows) == verify_rows(rows, 500000 * Unit, TRUE)

\* C11: cash conservation.  Replaying the trade log from the initial capital, every row's
\* cash_before is the cash after the previous row, its cash_after differs from it by the
\* fill's signed amount (sell: price*quantity - cost, buy: -(price*quantity + cost)), and
\* the replayed cash is the portfolio's current cash.
C11_CashConservation ==
  /\ verify_trades(portfolio.trade_history).ok
  /\ verify_trades(portfolio.trade_history).calculated_cash = portfolio.current_cash

C11_Witness ==
  /\ pc = "done"
  /\ \E i, j \in DOMAIN portfolio.trade_history :
       /\ i < j
       /\ portfolio.trade_history[i].direction = "BUY"
       /\ portfolio.trade_history[j].direction = "SELL"

(***************************************************************************)
(* PortfolioSpec: NaivePortfolio driven through its public methods in any  *)
(* order, as tests/test_portfolio.py does: the engine is a queue that only *)
(* collects the orders (MockEventEngine), market updates, signals and      *)
(* fills are inputs.  A fill is any of PfFills; the trading day changes    *)
(* with NewDay (nothing in the portfolio observes it).                     *)
(* hist: ops counts the calls; last is the last call with the position,    *)
(* cash and cost it found; resv_cash / resv_shares are what the orders     *)
(* accepted since the last fill reserved, resv_buys how many buy orders;   *)
(* bought_today[s] are the shares of s bought by fills since NewDay that   *)
(* are still held (a sell takes the older shares first).                   *)
(***************************************************************************)
PfSymbols == {"000001"}

PfFills ==
  {FillEvent(s, 0, q, "BUY", p, 5 * Unit, 0) : s \in PfSymbols, q \in {1000, 2000}, p \in {10 * Unit, 12 * Unit}}
    \cup {FillEvent(s, 0, q, "SELL", 11 * Unit, 5 * Unit, 0) : s \in PfSymbols, q \in {1000, 2000}}

NoCall == [op |-> "none", symbol |-> "", direction |-> "", quantity |-> 0, price |-> 0, commission |-> 0, pos_before |-> 0, cash_before |-> 0, cost_before |-> Zero]

PfInit ==
  /\ queue = <<>>
  /\ active = FALSE
  /\ backtest = NoBacktest
  /\ current = <<>>
  /\ handlers = NoHandlers
  /\ portfolio = TestPortfolio
  /\ execution = NewExecution
  /\ data_handler = [symbol_data |-> [s \in Symbols |-> 0], consumed |-> [s \in Symbols |-> 0], continue_backtest |-> FALSE]
  /\ account = NoAccount
  /\ pc = "test"
  /\ log = <<>>
  /\ hist = [ops |-> 0, last |-> NoCall, resv_cash |-> 0, resv_shares |-> [s \in PfSymbols |-> 0], resv_buys |-> 0, bought_today |-> [s \in PfSymbols |-> 0]]

\* the orders the call put on the collecting queue
PfNewOrders(w) == SubSeq(w.queue, Len(queue) + 1, Len(w.queue))

PfReserved(w, direction, symbol) ==
  LET new == PfNewOrders(w)
      mine == {i \in DOMAIN new : new[i].direction = direction /\ (direction = "BUY" \/ new[i].symbol = symbol)}
  IN SumOver(mine, [i \in mine |-> new[i].reserved])

PfCall(op, symbol, direction, quantity, price, commission) ==
  [op |-> op, symbol |-> symbol, direction |-> direction, quantity |-> quantity, price |-> price, commission |-> commission,
   pos_before |-> Get(portfolio.current_positions, symbol, 0), cash_before |-> portfolio.current_cash,
   cost_before |-> Get(portfolio.position_costs, symbol, Zero)]

\* the history after a call that is not a fill
PfHist(w, call) ==
  [hist EXCEPT !.ops = @ + 1,
               !.last = call,
               !.resv_cash = @ + PfReserved(w, "BUY", ""),
               !.resv_buys = @ + Cardinality({i \in DOMAIN PfNewOrders(w) : PfNewOrders(w)[i].direction = "BUY"}),
               !.resv_shares = [s \in PfSymbols |-> @[s] + PfReserved(w, "SELL", s)]]

PfMarket ==
  /\ hist.ops < MaxOps
  /\ \E s \in PfSymbols, close \in Closes :
       LET w == update_market_value(World, MarketEvent(s, close, hist.ops))
       IN /\ queue' = w.queue
          /\ portfolio' = w.portfolio
          /\ hist' = PfHist(w, PfCall("market", s, "", 0, close, 0))
  /\ UNCHANGED <<backtest, active, current, handlers, execution, data_handler, pc, log, account>>

PfSignal ==
  /\ hist.ops < MaxOps
  /\ \E s \in PfSymbols, sig \in SignalChoices \ {"NONE"} :
       LET w == update_signal(World, SignalEvent(s, sig))
       IN /\ queue' = w.queue
          /\ portfolio' = w.portfolio
          /\ hist' = PfHist(w, PfCall("signal", s, sig, 0, 0, 0))
  /\ UNCHANGED <<backtest, active, current, handlers, execution, data_handler, pc, log, account>>

PfFill ==
  \E f \in PfFills :
    LET w == update_fill(World, f)
    IN /\ hist.ops < MaxOps
       /\ queue' = w.queue
       /\ portfolio' = w.portfolio
       /\ hist' = [hist EXCEPT !.ops = @ + 1,
                               !.last = PfCall("fill", f.symbol, f.direction, f.quantity, f.fill_cost, f.commission),
                               !.resv_cash = 0,
                               !.resv_buys = 0,
                               !.resv_shares = [s \in PfSymbols |-> 0],
                               !.bought_today[f.symbol] = IF f.direction = "BUY" THEN @ + f.quantity
                                                          ELSE Min(@, Get(w.portfolio.current_positions, f.symbol, 0))]
       /\ UNCHANGED <<backtest, active, current, handlers, execution, data_handler, pc, log, account>>

NewDay ==
  /\ hist.ops < MaxOps
  /\ \E s \in PfSymbols : hist.bought_today[s] > 0
  /\ hist' = [hist EXCEPT !.ops = @ + 1, !.last = NoCall, !.bought_today = [s \in PfSymbols |-> 0]]
  /\ UNCHANGED <<backtest, active, current, queue, handlers, portfolio, execution, data_handler, pc, log, account>>

PfNext == PfMarket \/ PfSignal \/ PfFill \/ NewDay

PortfolioSpec == PfInit /\ [][PfNext]_vars

(***************************************************************************)
(* Properties of the portfolio under direct calls                          *)
(***************************************************************************)
Position(s) == Get(portfolio.current_positions, s, 0)

Pending(s) == Get(portfolio.pending_sells, s, 0)

OversizedSell == hist.last.op = "fill" /\ hist.last.direction = "SELL" /\ hist.last.quantity > hist.last.pos_before

\* C2: no double-spending.  The buy orders accepted with no fill in between never reserve
\* more than the cash held, locked_cash never exceeds current_cash once such an order is
\* accepted, and the sell orders of a symbol never reserve more shares than are held.
C2_NoDoubleSpend ==
  /\ hist.resv_buys > 0 => (hist.resv_cash <= portfolio.current_cash /\ portfolio.locked_cash <= portfolio.current_cash)
  /\ \A s \in PfSymbols : hist.resv_shares[s] <= Position(s) /\ Pending(s) <= Position(s)

C2_Witness == hist.resv_buys >= 2 /\ \E s \in PfSymbols : hist.resv_shares[s] > 0

\* C7: T+1.  A sell order never commits shares bought since the trading day began:
\* whenever pending_sells[s] grows it stays within the shares held that were not bought today.
C7_TPlusOne ==
  [][\A s \in PfSymbols : Get(portfolio'.pending_sells, s, 0) > Pending(s) => Get(portfolio'.pending_sells, s, 0) <= Position(s) - hist.bought_today[s]]_vars

\* C9: the position of every symbol is never negative, and a sell fill larger than the
\* quantity held leaves the quantity at 0 with the cost basis reset to 0.
C9_NonNegative ==
  /\ \A s \in DOMAIN portfolio.current_positions : portfolio.current_positions[s] >= 0
  /\ OversizedSell => (Position(hist.last.symbol) = 0 /\ Get(portfolio.position_costs, hist.last.symbol, Zero) = Zero)

C9_Witness == OversizedSell /\ hist.last.pos_before > 0

\* C10: an oversized sell executes exactly the quantity held: the cash credited and the
\* realized P&L recorded are those of the shares held, not of the quantity requested.
C10_OversizedSell ==
  (OversizedSell /\ hist.last.pos_before > 0) =>
    LET c == hist.last
        row == portfolio.trade_history[Len(portfolio.trade_history)]
    IN /\ Position(c.symbol) = 0
       /\ portfolio.current_cash = c.cash_before + c.pos_before * c.price - c.commission
       /\ row.realized_pnl = Rat((c.price * c.cost_before.d - c.cost_before.n) * c.pos_before - c.commission * c.cost_before.d, c.cost_before.d)

\* the rows of the trade log for symbol s
RowsOf(s) == SelectSeq(portfolio.trade_history, LAMBDA row : row.symbol = s)

\* C12: average cost.  While a symbol has only been bought, its quantity is the sum of the
\* filled quantities and its average cost is sum(quantity*price)/sum(quantity); a sell
\* that leaves shares leaves the average cost as it was; the first fill of the account,
\* a buy of q at p with cost c, leaves cash = initial - q*p - c, quantity q and cost p.
C12_AverageCost ==
  /\ \A s \in PfSymbols :
       LET rows == RowsOf(s)
           qty == SumOver(DOMAIN rows, [i \in DOMAIN rows |-> rows[i].quantity])
           val == SumOver(DOMAIN rows, [i \in DOMAIN rows |-> rows[i].quantity * rows[i].price])
       IN (rows # <<>> /\ \A i \in DOMAIN rows : rows[i].direction = "BUY") =>
            (Position(s) = qty /\ Get(portfolio.position_costs, s, Zero) = Rat(val, qty))
  /\ (hist.last.op = "fill" /\ hist.last.direction = "SELL" /\ Position(hist.last.symbol) > 0) =>
       Get(portfolio.position_costs, hist.last.symbol, Zero) = hist.last.cost_before
  /\ (Len(portfolio.trade_history) = 1 /\ hist.last.op = "fill" /\ hist.last.direction = "BUY") =>
       /\ portfolio.current_cash = 100000 * Unit - hist.last.quantity * hist.last.price - hist.last.commission
       /\ Position(hist.last.symbol) = hist.last.quantity
       /\ Get(portfolio.position_costs, hist.last.symbol, Zero) = Rat(hist.last.price, 1)

C12_Witness ==
  \E s \in PfSymbols :
    /\ Len(RowsOf(s)) = 3
    /\ RowsOf(s)[1].direction = "BUY" /\ RowsOf(s)[2].direction = "BUY" /\ RowsOf(s)[3].direction = "SELL"
    /\ RowsOf(s)[1].price # RowsOf(s)[2].price
    /\ RowsOf(s)[1].quantity # RowsOf(s)[2].quantity
    /\ Position(s) > 0

(***************************************************************************)
(* RiskSpec: the risk exits of update_market_value.  A portfolio with the  *)
(* parameters of the constructor or of the unit tests receives buy fills   *)
(* and market updates; hist.last is the last call, rule the [RiskControl]  *)
(* line the update printed ("none" when it printed nothing).               *)
(***************************************************************************)
MaxUpdates == 4

RiskCloses == {9 * Unit, 11 * Unit, 13 * Unit, 16 * Unit, 110 * Unit}

RiskFills == {FillEvent(s, 0, 1000, "BUY", 10 * Unit, 5 * Unit, 0) : s \in PfSymbols}

RiskInit ==
  /\ queue = <<>>
  /\ active = FALSE
  /\ backtest = NoBacktest
  /\ current = <<>>
  /\ handlers = NoHandlers
  /\ portfolio \in {NewPortfolio(100000 * Unit), TestPortfolio}
  /\ execution = NewExecution
  /\ data_handler = [symbol_data |-> [s \in Symbols |-> 0], consumed |-> [s \in Symbols |-> 0], continue_backtest |-> FALSE]
  /\ account = NoAccount
  /\ pc = "test"
  /\ log = <<>>
  /\ hist = [ops |-> 0, last |-> [op |-> "none", symbol |-> "", price |-> 0, rule |-> "none"]]

RiskMarket ==
  /\ hist.ops < MaxUpdates
  /\ \E s \in PfSymbols, close \in RiskCloses :
       LET w == update_market_value(World, MarketEvent(s, close, hist.ops))
       IN /\ queue' = w.queue
          /\ portfolio' = w.portfolio
          /\ hist' = [ops |-> hist.ops + 1,
                      last |-> [op |-> "market", symbol |-> s, price |-> close,
                                rule |-> risk_exit_rule(w.portfolio, s, close)]]
  /\ UNCHANGED <<backtest, active, current, handlers, execution, data_handler, pc, log, account>>

RiskFill ==
  /\ hist.ops < MaxUpdates
  /\ \E f \in RiskFills :
       LET w == update_fill(World, f)
       IN /\ queue' = w.queue
          /\ portfolio' = w.portfolio
          /\ hist' = [ops |-> hist.ops + 1, last |-> [op |-> "fill", symbol |-> f.symbol, price |-> f.fill_cost, rule |-> "none"]]
  /\ UNCHANGED <<backtest, active, current, handlers, execution, data_handler, pc, log, account>>

RiskNext == RiskMarket \/ RiskFill

RiskSpec == RiskInit /\ [][RiskNext]_vars

\* the step is a market update of a long position with average cost c > 0 whose close p
\* satisfies (p - c) / c <= -stop_loss_pct
StopLossUpdate ==
  /\ hist'.last.op = "market"
  /\ Position(hist'.last.symbol) > 0
  /\ Get(portfolio.position_costs, hist'.last.symbol, Zero).n > 0
  /\ LET c == Get(portfolio.position_costs, hist'.last.symbol, Zero)
     IN (hist'.last.price * c.d - c.n) * portfolio.stop_loss_pct[2] <= -(portfolio.stop_loss_pct[1] * c.n)

\* the step puts exactly one order on the queue, a SELL of quantity shares of symbol
PutsOneSell(symbol, quantity) ==
  /\ Len(queue') = Len(queue) + 1
  /\ SubSeq(queue', 1, Len(queue)) = queue
  /\ queue'[Len(queue')].type = "ORDER"
  /\ queue'[Len(queue')].direction = "SELL"
  /\ queue'[Len(queue')].symbol = symbol
  /\ queue'[Len(queue')].quantity = quantity

\* C13: stop-loss response.  A market update of a long position with average cost c > 0
\* whose close p satisfies (p - c)/c <= -stop_loss_pct puts, during that update, one SELL
\* order for the shares of the symbol no pending sell has reserved yet; when every share
\* is already reserved it puts no order.
C13_StopLoss ==
  [][StopLossUpdate =>
       LET s == hist'.last.symbol
           available == Position(s) - Pending(s)
       IN IF available > 0 THEN PutsOneSell(s, available) ELSE queue' = queue]_vars

\* C13 as stated: every such update puts a SELL order for the available quantity
C13_StopLossAlways ==
  [][StopLossUpdate => PutsOneSell(hist'.last.symbol, Position(hist'.last.symbol) - Pending(hist'.last.symbol))]_vars

\* 1000 shares bought at 10.00 and quoted 9.00, exactly -10%: the update put the SELL of
\* the 1000 shares
C13_Witness ==
  /\ hist.ops = 2
  /\ hist.last.op = "market"
  /\ hist.last.price = 9 * Unit
  /\ hist.last.rule = "stop_loss"
  /\ Position(hist.last.symbol) = 1000
  /\ Get(portfolio.position_costs, hist.last.symbol, Zero) = Rat(10 * Unit, 1)
  /\ Len(queue) = 1
  /\ queue[1].direction = "SELL"
  /\ queue[1].quantity = 1000

\* the step is a market update of a held symbol with an average cost
RiskUpdate ==
  /\ hist'.last.op = "market"
  /\ Position(hist'.last.symbol) > 0
  /\ Get(portfolio.position_costs, hist'.last.symbol, Zero).n > 0

\* the rules on the values of the update: close p, average cost c, and the high-water
\* mark after the update took the close into account
StopLossMatches(p, c) == (p * c.d - c.n) * portfolio.stop_loss_pct[2] <= -(portfolio.stop_loss_pct[1] * c.n)

TrailingMatches(p, c, high) ==
  /\ (high.n - p * high.d) * portfolio.trailing_stop_pct[2] >= portfolio.trailing_stop_pct[1] * high.n
  /\ p * c.d > c.n

TakeProfitMatches(p, c) == (p * c.d - c.n) * portfolio.take_profit_pct[2] >= portfolio.take_profit_pct[1] * c.n

TakeProfitEnabled == portfolio.take_profit_pct[1] < 10 * portfolio.take_profit_pct[2]

\* what the step must do when the first matching rule is `rule`
RiskExitIs(rule) ==
  LET s == hist'.last.symbol
      available == Position(s) - Pending(s)
  IN /\ hist'.last.rule = rule
     /\ IF rule # "none" /\ available > 0 THEN PutsOneSell(s, available) ELSE queue' = queue

\* C14: risk-exit priority.  A market update of a held symbol evaluates stop-loss, then
\* trailing stop (drawdown from the high-water mark >= trailing_stop_pct, position in
\* profit), then take-profit (return >= take_profit_pct, the rule being off when
\* take_profit_pct >= 10.0); the first rule that matches is the one exit of the update,
\* and the update puts at most one order, the SELL of the available shares.
C14_RiskPriority ==
  [][RiskUpdate =>
       LET s == hist'.last.symbol
           p == hist'.last.price
           c == Get(portfolio.position_costs, s, Zero)
           high == IF s \in DOMAIN portfolio'.high_water_marks THEN Rat(portfolio'.high_water_marks[s], 1) ELSE c
       IN RiskExitIs(IF StopLossMatches(p, c) THEN "stop_loss"
                     ELSE IF TrailingMatches(p, c, high) THEN "trailing_stop"
                     ELSE IF TakeProfitEnabled /\ TakeProfitMatches(p, c) THEN "take_profit"
                     ELSE "none")]_vars

\* C14 as stated: take-profit fires whenever the return >= take_profit_pct
C14_RiskPriorityAsStated ==
  [][RiskUpdate =>
       LET s == hist'.last.symbol
           p == hist'.last.price
           c == Get(portfolio.position_costs, s, Zero)
           high == IF s \in DOMAIN portfolio'.high_water_marks THEN Rat(portfolio'.high_water_marks[s], 1) ELSE c
       IN RiskExitIs(IF StopLossMatches(p, c) THEN "stop_loss"
                     ELSE IF TrailingMatches(p, c, high) THEN "trailing_stop"
                     ELSE IF TakeProfitMatches(p, c) THEN "take_profit"
                     ELSE "none")]_vars

\* an update on which both the trailing stop and the take-profit match: the trailing stop
\* is printed and one order, the SELL of the 1000 shares not yet reserved, is the last put
C14_Witness ==
  /\ hist.last.op = "market"
  /\ hist.last.rule = "trailing_stop"
  /\ TakeProfitEnabled
  /\ TakeProfitMatches(hist.last.price, Get(portfolio.position_costs, hist.last.symbol, Zero))
  /\ Len(queue) = 2
  /\ queue[2].direction = "SELL"
  /\ Position(hist.last.symbol) = 2000
  /\ Pending(hist.last.symbol) = 2000
  /\ hist.ops = 4

(***************************************************************************)
(* OrderSpec: create_order called directly, as a strategy or a subclass    *)
(* does, on the portfolio of the unit tests, between buy fills and market  *)
(* updates.  hist.last is the last call.                                   *)
(***************************************************************************)
MaxCalls == 3

OrdQuantities == {-100, 0, 1000, 2000, 10000}

OrdPrices == {-(10 * Unit), 0, 10 * Unit, 12 * Unit}

OrdCloses == {10 * Unit, 12 * Unit}

OrdCall(op, symbol, quantity, price) == [op |-> op, symbol |-> symbol, quantity |-> quantity, price |-> price]

OrdInit ==
  /\ queue = <<>>
  /\ active = FALSE
  /\ backtest = NoBacktest
  /\ current = <<>>
  /\ handlers = NoHandlers
  /\ portfolio = TestPortfolio
  /\ execution = NewExecution
  /\ data_handler = [symbol_data |-> [s \in Symbols |-> 0], consumed |-> [s \in Symbols |-> 0], continue_backtest |-> FALSE]
  /\ account = NoAccount
  /\ pc = "test"
  /\ log = <<>>
  /\ hist = [ops |-> 0, last |-> OrdCall("none", "", 0, 0)]

OrdCreate ==
  /\ hist.ops < MaxCalls
  /\ \E s \in PfSymbols, quantity \in OrdQuantities, price \in OrdPrices :
       LET w == create_order(World, s, "BUY", quantity, price)
       IN /\ queue' = w.queue
          /\ portfolio' = w.portfolio
          /\ hist' = [ops |-> hist.ops + 1, last |-> OrdCall("create_order", s, quantity, price)]
  /\ UNCHANGED <<backtest, active, current, handlers, execution, data_handler, pc, log, account>>

OrdFill ==
  /\ hist.ops < MaxCalls
  /\ \E f \in RiskFills :
       LET w == update_fill(World, f)
       IN /\ queue' = w.queue
          /\ portfolio' = w.portfolio
          /\ hist' = [ops |-> hist.ops + 1, last |-> OrdCall("fill", f.symbol, f.quantity, f.fill_cost)]
  /\ UNCHANGED <<backtest, active, current, handlers, execution, data_handler, pc, log, account>>

OrdMarket ==
  /\ hist.ops < MaxCalls
  /\ \E s \in PfSymbols, close \in OrdCloses :
       LET w == update_market_value(World, MarketEvent(s, close, hist.ops))
       IN /\ queue' = w.queue
          /\ portfolio' = w.portfolio
          /\ hist' = [ops |-> hist.ops + 1, last |-> OrdCall("market", s, 0, close)]
  /\ UNCHANGED <<backtest, active, current, handlers, execution, data_handler, pc, log, account>>

OrdNext == OrdCreate \/ OrdFill \/ OrdMarket

OrderSpec == OrdInit /\ [][OrdNext]_vars

\* cash + sum of quantity * latest price over the positions
AssetsNow ==
  portfolio.current_cash
    + SumOver(DOMAIN portfolio.current_positions,
              [x \in DOMAIN portfolio.current_positions |-> portfolio.current_positions[x] * Get(portfolio.latest_prices, x, 0)])

\* the four reasons to reject a buy of quantity shares of symbol at price
BuyRejected(symbol, quantity, price) ==
  \/ price <= 0
  \/ quantity <= 0
  \/ portfolio.current_cash - portfolio.locked_cash < quantity * price
  \/ (Position(symbol) * price + quantity * price) * portfolio.max_single_pos_pct[2] > AssetsNow * portfolio.max_single_pos_pct[1]

\* C15: a buy with price <= 0, quantity <= 0, available cash < quantity*price or a resulting
\* position value above max_single_pos_pct of total assets is rejected: create_order puts no
\* order and reserves no cash.  Every other buy is accepted: its order is put and
\* quantity*price is reserved.
C15_ValidateBuy ==
  [][hist'.last.op = "create_order" =>
       LET s == hist'.last.symbol
           q == hist'.last.quantity
           p == hist'.last.price
       IN IF BuyRejected(s, q, p)
            THEN queue' = queue /\ portfolio' = portfolio
            ELSE /\ queue' = Append(queue, OrderEvent(s, q, "BUY", q * p))
                 /\ portfolio' = [portfolio EXCEPT !.locked_cash = @ + q * p]]_vars

\* a buy of 1000 at 12.00 on top of 1000 held shares quoted 12.00 was refused for the cap
\* alone: the cash was there
C15_Witness ==
  /\ hist.last.op = "create_order"
  /\ hist.last.quantity = 1000
  /\ hist.last.price = 12 * Unit
  /\ Position(hist.last.symbol) = 1000
  /\ Get(portfolio.latest_prices, hist.last.symbol, 0) = 12 * Unit
  /\ portfolio.current_cash - portfolio.locked_cash >= 1000 * 12 * Unit
  /\ queue = <<>>
  /\ portfolio.locked_cash = 0

(***************************************************************************)
(* SizeSpec: the sizing of Long signals.  The portfolio of the unit tests, *)
(* opened with 100,000 or 12,000, receives buy fills, market updates and   *)
(* Long signals on two symbols.  hist.last is the last call.               *)
(***************************************************************************)
MaxSignals == 5

SzSymbols == {"000001", "000002"}

SzCapitals == {100000 * Unit, 12000 * Unit}

SzFills == {FillEvent(s, 0, 1000, "BUY", 10 * Unit, 5 * Unit, 0) : s \in SzSymbols}

SzInit ==
  /\ queue = <<>>
  /\ active = FALSE
  /\ backtest = NoBacktest
  /\ current = <<>>
  /\ handlers = NoHandlers
  /\ portfolio \in {[TestPortfolio EXCEPT !.current_cash = initial_capital] : initial_capital \in SzCapitals}
  /\ execution = NewExecution
  /\ data_handler = [symbol_data |-> [s \in Symbols |-> 0], consumed |-> [s \in Symbols |-> 0], continue_backtest |-> FALSE]
  /\ account = NoAccount
  /\ pc = "test"
  /\ log = <<>>
  /\ hist = [ops |-> 0, last |-> OrdCall("none", "", 0, 0)]

SzSignal ==
  /\ hist.ops < MaxSignals
  /\ \E s \in SzSymbols :
       LET w == update_signal(World, SignalEvent(s, "LONG"))
       IN /\ queue' = w.queue
          /\ portfolio' = w.portfolio
          /\ hist' = [ops |-> hist.ops + 1, last |-> OrdCall("signal", s, 0, Get(portfolio.latest_prices, s, 0))]
  /\ UNCHANGED <<backtest, active, current, handlers, execution, data_handler, pc, log, account>>

SzFill ==
  /\ hist.ops < MaxSignals
  /\ \E f \in SzFills :
       LET w == update_fill(World, f)
       IN /\ queue' = w.queue
          /\ portfolio' = w.portfolio
          /\ hist' = [ops |-> hist.ops + 1, last |-> OrdCall("fill", f.symbol, f.quantity, f.fill_cost)]
  /\ UNCHANGED <<backtest, active, current, handlers, execution, data_handler, pc, log, account>>

SzMarket ==
  /\ hist.ops < MaxSignals
  /\ \E s \in SzSymbols, close \in OrdCloses :
       LET w == update_market_value(World, MarketEvent(s, close, hist.ops))
       IN /\ queue' = w.queue
          /\ portfolio' = w.portfolio
          /\ hist' = [ops |-> hist.ops + 1, last |-> OrdCall("market", s, 0, close)]
  /\ UNCHANGED <<backtest, active, current, handlers, execution, data_handler, pc, log, account>>

SzNext == SzSignal \/ SzFill \/ SzMarket

SizeSpec == SzInit /\ [][SzNext]_vars

\* x rounded down to a multiple of 100 shares at price p, for an amount x * den given as num
LotsFor(num, den, p) == (num \div (den * p * 100)) * 100

\* the quantity the sizing rule gives for symbol s quoted p with available cash a
SizedQuantity(s, p, a) ==
  LET q0 == LotsFor(a * portfolio.buy_pct[1], portfolio.buy_pct[2], p)
      q1 == IF q0 < 100 /\ a >= 100 * p THEN 100 ELSE q0
      cap == portfolio.max_single_pos_pct
      over == (Position(s) * p + q1 * p) * cap[2] > AssetsNow * cap[1]
      headroom == IF AssetsNow * cap[1] > Position(s) * p * cap[2] THEN AssetsNow * cap[1] - Position(s) * p * cap[2] ELSE 0
  IN IF over THEN LotsFor(headroom, cap[2], p) ELSE q1

\* C16: buy sizing.  A Long signal on a symbol quoted p > 0 with available cash a > 0 orders
\* a*buy_pct/p rounded down to a lot, one lot when that is below a lot and a >= 100*p, clipped
\* to the headroom under max_single_pos_pct of total assets rounded down to a lot; the order
\* it puts is a positive multiple of 100 within available cash and within the cap, and it
\* puts none when the sized quantity is 0.
C16_BuySizing ==
  [][hist'.last.op = "signal" =>
       LET s == hist'.last.symbol
           p == Get(portfolio.latest_prices, s, 0)
           a == portfolio.current_cash - portfolio.locked_cash
           q == SizedQuantity(s, p, a)
           cap == portfolio.max_single_pos_pct
       IN IF p > 0 /\ a > 0 /\ q > 0
            THEN /\ queue' = Append(queue, OrderEvent(s, q, "BUY", q * p))
                 /\ q % 100 = 0
                 /\ q * p <= a
                 /\ (Position(s) + q) * p * cap[2] <= AssetsNow * cap[1]
            ELSE queue' = queue]_vars

\* cash 100,000, buy_pct 0.5, cap 0.2, price 10: the order is for 2,000
C16_Witness ==
  /\ hist.ops = 2
  /\ hist.last.op = "signal"
  /\ hist.last.price = 10 * Unit
  /\ portfolio.current_cash = 100000 * Unit
  /\ portfolio.buy_pct = <<1, 2>>
  /\ portfolio.max_single_pos_pct = <<1, 5>>
  /\ Len(queue) = 1
  /\ queue[1].direction = "BUY"
  /\ queue[1].quantity = 2000

(***************************************************************************)
(* ExecSpec: the composite execution handler under direct calls of         *)
(* update_price and execute_order.  hist.last is the last call and, for an *)
(* order, the sub-handler it was handed to.                                *)
(***************************************************************************)
MaxExecCalls == 3

\* a 6-character code, a 5-character code and one that is neither
ExSymbols == {A_SHARE, HK_SHARE, "0700"}

ExCloses == {0, 8 * Unit, 10 * Unit}

ExQuantities == {50, 100, 150}

ExCall(op, symbol, quantity, direction, handler) == [op |-> op, symbol |-> symbol, quantity |-> quantity, direction |-> direction, handler |-> handler]

ExInit ==
  /\ queue = <<>>
  /\ active = FALSE
  /\ backtest = NoBacktest
  /\ current = <<>>
  /\ handlers = NoHandlers
  /\ portfolio = BacktestPortfolio
  /\ execution = NewExecution
  /\ data_handler = [symbol_data |-> [s \in Symbols |-> 0], consumed |-> [s \in Symbols |-> 0], continue_backtest |-> FALSE]
  /\ account = NoAccount
  /\ pc = "test"
  /\ log = <<>>
  /\ hist = [ops |-> 0, last |-> ExCall("none", "", 0, "", "")]

ExUpdatePrice ==
  /\ hist.ops < MaxExecCalls
  /\ \E s \in ExSymbols, close \in ExCloses :
       /\ execution' = composite_update_price(World, MarketEvent(s, close, hist.ops)).execution
       /\ hist' = [ops |-> hist.ops + 1, last |-> ExCall("update_price", s, 0, "", "")]
  /\ UNCHANGED <<backtest, active, current, queue, handlers, portfolio, data_handler, pc, log, account>>

ExExecuteOrder ==
  /\ hist.ops < MaxExecCalls
  /\ \E s \in ExSymbols, quantity \in ExQuantities, direction \in {"BUY", "SELL"} :
       LET order == OrderEvent(s, quantity, direction, 0)
           w == composite_execute_order(World, order)
       IN /\ queue' = w.queue
          /\ execution' = w.execution
          /\ hist' = [ops |-> hist.ops + 1, last |-> ExCall("execute_order", s, quantity, direction, route(order))]
  /\ UNCHANGED <<backtest, active, current, handlers, portfolio, data_handler, pc, log, account>>

ExecNext == ExUpdatePrice \/ ExExecuteOrder

ExecSpec == ExInit /\ [][ExecNext]_vars

\* the price cache of the sub-handler named h
CacheOf(h) == IF h = "hk_share_handler" THEN execution.hk_share_handler.latest_prices ELSE execution.a_share_handler.latest_prices

\* the step puts exactly one event on the queue, a Fill
PutsOneFill == Len(queue') = Len(queue) + 1 /\ SubSeq(queue', 1, Len(queue)) = queue /\ queue'[Len(queue')].type = "FILL"

\* C18: a BUY order handed to the domestic handler with a quantity that is not a multiple
\* of 100 is refused: no Fill is put on the queue, whatever price is cached.
C18_LotRejection ==
  [][(/\ hist'.last.op = "execute_order"
      /\ hist'.last.handler = "a_share_handler"
      /\ hist'.last.direction = "BUY"
      /\ hist'.last.quantity % 100 # 0) => (queue' = queue /\ execution' = execution)]_vars

\* a buy of 150 of the 6-character code quoted 10.00 left the queue empty
C18_Witness ==
  /\ hist.last.op = "execute_order"
  /\ hist.last.symbol = A_SHARE
  /\ hist.last.direction = "BUY"
  /\ hist.last.quantity = 150
  /\ Get(execution.a_share_handler.latest_prices, A_SHARE, 0) = 10 * Unit
  /\ queue = <<>>

\* C19: an order for a symbol with no cached price puts no Fill; a Fill is put only for a
\* symbol update_price cached a non-zero quote for, at that quote (the domestic handler) or
\* at that quote converted at the reference rate (the cross-border handler).
C19_NoFabricatedPrice ==
  [][hist'.last.op = "execute_order" =>
       LET s == hist'.last.symbol
           cache == CacheOf(hist'.last.handler)
       IN /\ s \notin DOMAIN cache => queue' = queue
          /\ queue' # queue =>
               /\ PutsOneFill
               /\ s \in DOMAIN cache
               /\ cache[s] \in ExCloses \ {0}
               /\ queue'[Len(queue')].fill_cost =
                    IF hist'.last.handler = "hk_share_handler" THEN (cache[s] * 23) \div 25 ELSE cache[s]]_vars

\* a lot of the 5-character code was ordered while only the 6-character code had a quote:
\* nothing was filled
C19_Witness ==
  /\ hist.ops = 2
  /\ hist.last.op = "execute_order"
  /\ hist.last.symbol = HK_SHARE
  /\ hist.last.quantity = 100
  /\ HK_SHARE \notin DOMAIN execution.hk_share_handler.latest_prices
  /\ Get(execution.hk_share_handler.latest_prices, A_SHARE, 0) = 10 * Unit
  /\ queue = <<>>

\* C20: routing.  The composite handler hands an order to the cross-border handler when its
\* code has 5 characters and to the domestic handler otherwise; the order puts at most one
\* Fill, with the order's symbol, direction and quantity, priced as that handler prices it.
C20_Routing ==
  [][hist'.last.op = "execute_order" =>
       LET s == hist'.last.symbol
           h == hist'.last.handler
       IN /\ h = (IF Len(s) = 5 THEN "hk_share_handler" ELSE "a_share_handler")
          /\ execution' = execution
          /\ queue' = queue \/ PutsOneFill
          /\ queue' # queue =>
               /\ queue'[Len(queue')].symbol = s
               /\ queue'[Len(queue')].direction = hist'.last.direction
               /\ queue'[Len(queue')].quantity = hist'.last.quantity
               /\ queue'[Len(queue')].fill_cost = IF Len(s) = 5 THEN (CacheOf(h)[s] * 23) \div 25 ELSE CacheOf(h)[s]]_vars

\* an odd-lot buy of the 5-character code quoted 8.00 went to the cross-border handler and
\* was filled once, at the converted quote
C20_Witness ==
  /\ hist.last.op = "execute_order"
  /\ Len(queue) = 1
  /\ queue[1].symbol = HK_SHARE
  /\ queue[1].direction = "BUY"
  /\ queue[1].quantity = 150
  /\ queue[1].fill_cost = (8 * Unit * 23) \div 25
  /\ hist.last.handler = "hk_share_handler"

(***************************************************************************)
(* BusSpec: the EventEngine alone.  Between two calls of                   *)
(* process_all_events the program registers and unregisters handlers and   *)
(* puts Market events; the handlers are the strategy's calculate_signals   *)
(* (it may put a Signal event during dispatch) and the callbacks h1, h2    *)
(* that record in log the events they receive.                             *)
(* hist: puts are the events put, in the order of the calls of put;        *)
(* dispatched the events handed to __process, in order; registered[t] the  *)
(* handlers registered for t and not unregistered since, in the order of   *)
(* their first registration; dup / unreg tell that a handler was           *)
(* registered again / unregistered; call_puts counts the events handlers   *)
(* put during the current call of process_all_events; covered tells that   *)
(* an event reached two callbacks after both dup and unreg.                *)
(***************************************************************************)
MaxPuts == 2

Callbacks == {"h1", "h2"}

BusRegistrations == {<<"MARKET", "strategy.calculate_signals">>} \cup ({"MARKET", "SIGNAL"} \X Callbacks)

BusInit ==
  /\ queue = <<>>
  /\ active = FALSE
  /\ backtest = NoBacktest
  /\ current = <<>>
  /\ handlers = NoHandlers
  /\ portfolio = NewPortfolio(100000 * Unit)
  /\ execution = NewExecution
  /\ data_handler = [symbol_data |-> [s \in Symbols |-> 0], consumed |-> [s \in Symbols |-> 0], continue_backtest |-> FALSE]
  /\ account = NoAccount
  /\ pc = "idle"
  /\ log = <<>>
  /\ hist = [puts |-> <<>>, dispatched |-> <<>>, registered |-> [t \in EventTypes |-> <<>>],
             dup |-> FALSE, unreg |-> FALSE, call_puts |-> 0, covered |-> FALSE]

BusRegister ==
  /\ pc = "idle"
  /\ \E r \in BusRegistrations :
       /\ handlers' = register(handlers, r[1], r[2])
       /\ hist' = [hist EXCEPT !.registered[r[1]] = IF InSeq(r[2], @) THEN @ ELSE Append(@, r[2]),
                               !.dup = @ \/ InSeq(r[2], hist.registered[r[1]])]
  /\ UNCHANGED <<backtest, active, current, queue, portfolio, execution, data_handler, account, pc, log>>

BusUnregister ==
  /\ pc = "idle"
  /\ \E r \in BusRegistrations :
       /\ handlers' = unregister(handlers, r[1], r[2])
       /\ hist' = [hist EXCEPT !.registered[r[1]] = SelectSeq(@, LAMBDA h : h # r[2]),
                               !.unreg = @ \/ InSeq(r[2], hist.registered[r[1]])]
  /\ UNCHANGED <<backtest, active, current, queue, portfolio, execution, data_handler, account, pc, log>>

\* the program puts a Market event (the data handler's bar)
BusPut ==
  /\ pc = "idle"
  /\ Len(hist.puts) < MaxPuts
  /\ LET event == MarketEvent(A_SHARE, 10 * Unit, Len(hist.puts) + 1)
         w == put(World, event)
     IN /\ queue' = w.queue
        /\ hist' = [hist EXCEPT !.puts = Append(@, event)]
  /\ UNCHANGED <<backtest, active, current, handlers, portfolio, execution, data_handler, account, pc, log>>

\* process_all_events is called
BusProcessAll ==
  /\ pc = "idle"
  /\ pc' = "drain"
  /\ hist' = [hist EXCEPT !.call_puts = 0]
  /\ UNCHANGED <<backtest, active, current, queue, handlers, portfolio, execution, data_handler, account, log>>

\* the callbacks among hs, in order, each receiving event
Deliveries(hs, event) ==
  LET cb == SelectSeq(hs, LAMBDA h : h \in Callbacks)
  IN [i \in 1..Len(cb) |-> [handler |-> cb[i], event |-> event]]

\* one iteration of process_all_events
BusDispatch ==
  /\ pc = "drain"
  /\ ~queue_empty(queue)
  /\ \E sig \in (IF Head(queue).type = "MARKET" THEN {"NONE", "LONG"} ELSE {"NONE"}) :
       LET event == Head(queue)
           w == process(handlers, [World EXCEPT !.queue = Tail(queue)], event, sig)
       IN /\ queue' = w.queue
          /\ log' = w.log
          /\ hist' = [hist EXCEPT !.dispatched = Append(@, event),
                                  !.puts = @ \o Appended(queue, w.queue),
                                  !.call_puts = @ + Len(Appended(queue, w.queue)),
                                  !.covered = @ \/ (hist.dup /\ hist.unreg /\ Len(Deliveries(hist.registered[event.type], event)) = 2)]
  /\ UNCHANGED <<backtest, active, current, handlers, portfolio, execution, data_handler, account, pc>>

\* process_all_events returns
BusReturn ==
  /\ pc = "drain"
  /\ queue_empty(queue)
  /\ pc' = "idle"
  /\ UNCHANGED <<backtest, active, current, queue, handlers, portfolio, execution, data_handler, account, log, hist>>

BusNext == BusRegister \/ BusUnregister \/ BusPut \/ BusProcessAll \/ BusDispatch \/ BusReturn

BusSpec == BusInit /\ [][BusNext]_vars

(***************************************************************************)
(* Properties of the event bus                                             *)
(***************************************************************************)
\* C5: cascading drain.  process_all_events returns only with the queue empty, and every
\* event put so far, those put by handlers during the call included, has been dispatched.
C5_CascadingDrain ==
  [][(pc = "drain" /\ pc' = "idle") => (queue = <<>> /\ hist.dispatched = hist.puts)]_vars

C5_Witness == pc = "idle" /\ hist.call_puts >= 2 /\ hist.dispatched = hist.puts

\* C6: dispatch order.  The event dispatched is the oldest event put and not yet dispatched,
\* and it is delivered exactly once to each callback registered for its type and not
\* unregistered since, in the order of first registration, and to no other callback.
C6_DispatchOrder ==
  [][(pc = "drain" /\ hist.dispatched' # hist.dispatched) =>
       /\ Len(hist.dispatched) < Len(hist.puts)
       /\ Head(queue) = hist.puts[Len(hist.dispatched) + 1]
       /\ log' = log \o Deliveries(hist.registered[Head(queue).type], Head(queue))]_vars

C6_Witness == hist.covered /\ Len(hist.dispatched) >= 2 /\ Len(log) >= 3

(***************************************************************************)
(* Account model (core/backtesting/account.py).  A Position is a record,   *)
(* Account.positions a dict from code to Position; buy and sell return     *)
(* the account after the call and the success flag of the returned tuple.  *)
(***************************************************************************)
account_commission_rate == <<1, 5000>>

NewPosition == [total_volume |-> 0, available_volume |-> 0, avg_cost |-> Zero]

NewAccount(initial_cash) == [cash |-> initial_cash, positions |-> EmptyDict]

on_buy_available(pos, volume, price) ==
  LET v == (volume \div 100) * 100
  IN IF volume <= 0 \/ v <= 0 THEN pos
     ELSE [pos EXCEPT !.total_volume = @ + v,
                      !.available_volume = @ + v,
                      !.avg_cost = Rat(pos.total_volume * pos.avg_cost.n + v * price * pos.avg_cost.d, pos.avg_cost.d * (pos.total_volume + v))]

\* Position.on_buy: available_volume is left for settle
on_buy(pos, volume, price) ==
  LET v == (volume \div 100) * 100
  IN IF volume <= 0 \/ v <= 0 THEN pos
     ELSE [pos EXCEPT !.total_volume = @ + v,
                      !.avg_cost = Rat(pos.total_volume * pos.avg_cost.n + v * price * pos.avg_cost.d, pos.avg_cost.d * (pos.total_volume + v))]

\* Position.on_sell
on_sell(pos, volume, price) ==
  IF volume <= 0 THEN pos
  ELSE LET v == IF volume > pos.available_volume THEN pos.available_volume ELSE volume
       IN [pos EXCEPT !.total_volume = @ - v,
                      !.available_volume = @ - v,
                      !.avg_cost = IF pos.total_volume - v = 0 THEN Zero ELSE @]

position_settle_skipped(pos) == pos

\* Position.settle
position_settle(pos) == [pos EXCEPT !.available_volume = pos.total_volume]

\* Account.get_position
get_position(ac, code) == IF code \in DOMAIN ac.positions THEN ac ELSE [ac EXCEPT !.positions = Set(@, code, NewPosition)]

\* Account.buy
account_buy(ac, code, price, volume) ==
  LET cost == price * volume
      commission == FracMul(cost, account_commission_rate)
      total_cost == cost + commission
      ac1 == get_position(ac, code)
  IN IF volume <= 0 THEN [account |-> ac, ok |-> FALSE]
     ELSE IF ac.cash < total_cost THEN [account |-> ac, ok |-> FALSE]
     ELSE [account |-> [ac1 EXCEPT !.positions[code] = on_buy(@, volume, price), !.cash = @ - total_cost], ok |-> TRUE]

\* Account.sell
account_sell(ac, code, price, volume) ==
  LET revenue == price * volume
      commission == FracMul(revenue, account_commission_rate)
      net_revenue == revenue - commission
  IN IF volume <= 0 THEN [account |-> ac, ok |-> FALSE]
     ELSE IF code \notin DOMAIN ac.positions THEN [account |-> ac, ok |-> FALSE]
     ELSE IF ac.positions[code].available_volume < volume THEN [account |-> ac, ok |-> FALSE]
     ELSE LET pos == on_sell(ac.positions[code], volume, price)
          IN [account |-> [ac EXCEPT !.cash = @ + net_revenue,
                                     !.positions = IF pos.total_volume = 0 THEN Pop(@, code) ELSE Set(@, code, pos)],
              ok |-> TRUE]

\* Account.settle
account_settle(ac) == [ac EXCEPT !.positions = [c \in DOMAIN @ |-> position_settle(@[c])]]

(***************************************************************************)
(* AccountSpec: BacktestEngine.run.  After strategy.initialize each day of *)
(* the date range starts with account.settle(); the strategy's callbacks   *)
(* (initialize, and on_day_start, on_bar, on_day_end of each day) buy and  *)
(* sell any code at any price and volume.                                  *)
(* hist: day counts the days begun, trades the calls of buy and sell;      *)
(* last is the last call; settled[c] is the total_volume of c at the       *)
(* day's settle, sold[c] the shares of c sold since.                       *)
(***************************************************************************)
MaxDays == 2

MaxTrades == 4

AcCodes == {A_SHARE, "000001"}

AcPrices == {10 * Unit, 12 * Unit}

AcVolumes == {0, 100, 150}

AcCash == {2000 * Unit, 100000 * Unit}

NoTrade == [op |-> "none", code |-> "", price |-> 0, volume |-> 0, ok |-> FALSE]

TotalVolume(ac, c) == IF c \in DOMAIN ac.positions THEN ac.positions[c].total_volume ELSE 0

AvailableVolume(ac, c) == IF c \in DOMAIN ac.positions THEN ac.positions[c].available_volume ELSE 0

AccountInit ==
  /\ queue = <<>>
  /\ active = FALSE
  /\ backtest = NoBacktest
  /\ current = <<>>
  /\ handlers = NoHandlers
  /\ portfolio = NewPortfolio(100000 * Unit)
  /\ execution = NewExecution
  /\ data_handler = [symbol_data |-> [s \in Symbols |-> 0], consumed |-> [s \in Symbols |-> 0], continue_backtest |-> FALSE]
  /\ account \in {NewAccount(cash) : cash \in AcCash}
  /\ pc = "initialize"
  /\ log = <<>>
  /\ hist = [day |-> 0, trades |-> 0, last |-> NoTrade, settled |-> [c \in AcCodes |-> 0], sold |-> [c \in AcCodes |-> 0]]

\* strategy.initialize(self.context) is over
AcInitialized ==
  /\ pc = "initialize"
  /\ pc' = "day_start"
  /\ UNCHANGED <<backtest, active, current, queue, handlers, portfolio, execution, data_handler, account, log, hist>>

\* for current_date in date_range: self.account.settle()
AcSettle ==
  /\ pc = "day_start"
  /\ hist.day < MaxDays
  /\ account' = account_settle(account)
  /\ pc' = "trading"
  /\ hist' = [hist EXCEPT !.day = @ + 1, !.last = NoTrade,
                          !.settled = [c \in AcCodes |-> TotalVolume(account, c)],
                          !.sold = [c \in AcCodes |-> 0]]
  /\ UNCHANGED <<backtest, active, current, queue, handlers, portfolio, execution, data_handler, log>>

AcBuy ==
  /\ pc \in {"initialize", "trading"}
  /\ hist.trades < MaxTrades
  /\ \E code \in AcCodes, price \in AcPrices, volume \in AcVolumes :
       LET r == account_buy(account, code, price, volume)
       IN /\ account' = r.account
          /\ hist' = [hist EXCEPT !.trades = @ + 1, !.last = [op |-> "buy", code |-> code, price |-> price, volume |-> volume, ok |-> r.ok]]
  /\ UNCHANGED <<backtest, active, current, queue, handlers, portfolio, execution, data_handler, pc, log>>

AcSell ==
  /\ pc \in {"initialize", "trading"}
  /\ hist.trades < MaxTrades
  /\ \E code \in AcCodes, price \in AcPrices, volume \in AcVolumes :
       LET r == account_sell(account, code, price, volume)
       IN /\ account' = r.account
          /\ hist' = [hist EXCEPT !.trades = @ + 1, !.last = [op |-> "sell", code |-> code, price |-> price, volume |-> volume, ok |-> r.ok],
                                  !.sold[code] = @ + TotalVolume(account, code) - TotalVolume(r.account, code)]
  /\ UNCHANGED <<backtest, active, current, queue, handlers, portfolio, execution, data_handler, pc, log>>

\* the day's callbacks are over
AcDayEnd ==
  /\ pc = "trading"
  /\ pc' = "day_start"
  /\ UNCHANGED <<backtest, active, current, queue, handlers, portfolio, execution, data_handler, account, log, hist>>

\* the date range is exhausted
AcFinish ==
  /\ pc = "day_start"
  /\ hist.day = MaxDays
  /\ pc' = "done"
  /\ UNCHANGED <<backtest, active, current, queue, handlers, portfolio, execution, data_handler, account, log, hist>>

AccountNext == AcInitialized \/ AcSettle \/ AcBuy \/ AcSell \/ AcDayEnd \/ AcFinish

AccountSpec == AccountInit /\ [][AccountNext]_vars

(***************************************************************************)
(* Properties of the Account model                                         *)
(***************************************************************************)
\* C8: T+1 in the Account model.  The shares of a code that can be sold are exactly those
\* held at the day's settle and not sold since; a buy leaves available_volume unchanged, and
\* a sell of more than the shares held at the day's settle and not yet sold fails and
\* changes nothing.
C8_AccountTPlusOne ==
  /\ [](\A c \in AcCodes : AvailableVolume(account, c) = hist.settled[c] - hist.sold[c] /\ hist.sold[c] <= hist.settled[c])
  /\ [][/\ (hist'.trades # hist.trades /\ hist'.last.op = "buy") =>
             \A c \in AcCodes : AvailableVolume(account', c) = AvailableVolume(account, c)
        /\ (hist'.trades # hist.trades /\ hist'.last.op = "sell" /\ hist'.last.volume > hist.settled[hist'.last.code] - hist.sold[hist'.last.code]) =>
             (~hist'.last.ok /\ account' = account)]_vars

C8_Witness ==
  /\ hist.day = 2
  /\ hist.last.op = "sell"
  /\ ~hist.last.ok
  /\ hist.settled[hist.last.code] > 0
  /\ hist.last.volume <= TotalVolume(account, hist.last.code)
  /\ hist.last.volume > AvailableVolume(account, hist.last.code)


\* C17: settle.  The step that begins a day with account.settle() leaves every position of
\* the account with available_volume = total_volume, and changes neither the positions held
\* nor their total_volume nor the cash, whatever was bought and sold before.
C17_SettleMakesAvailable ==
  [][hist'.day # hist.day =>
       /\ DOMAIN account'.positions = DOMAIN account.positions
       /\ account'.cash = account.cash
       /\ \A c \in DOMAIN account'.positions :
            /\ account'.positions[c].total_volume = account.positions[c].total_volume
            /\ account'.positions[c].available_volume = account'.positions[c].total_volume]_vars

\* the second day's settle found 150 shares of which 50 were sellable (200 held at the first
\* settle, 150 sold and 100 bought since) and made the 150 sellable
C17_Witness ==
  /\ hist.day = 2
  /\ hist.last = NoTrade
  /\ hist.trades = 4
  /\ \E c \in AcCodes : TotalVolume(account, c) = 150 /\ AvailableVolume(account, c) = 150


(***************************************************************************)
(* ReproSpec: two runs of the wired pipeline in drain mode on the same     *)
(* inputs.  The variables hold the first run, hist.twin the second; each   *)
(* step publishes the same Market event to both or dispatches the head of  *)
(* both queues with the same strategy decision.  The runs differ in what   *)
(* the wall clock read when their execution handlers were constructed.     *)
(***************************************************************************)
MaxPublished == 2

\* readings of datetime.now()
Clocks == {-1, -2}

RpInit ==
  /\ queue = <<>>
  /\ active = FALSE
  /\ backtest = NoBacktest
  /\ current = <<>>
  /\ handlers = WiredHandlers
  /\ portfolio = BacktestPortfolio
  /\ \E now \in Clocks : execution = ExecutionAt(now)
  /\ data_handler = [symbol_data |-> [s \in Symbols |-> 0], consumed |-> [s \in Symbols |-> 0], continue_backtest |-> FALSE]
  /\ account = NoAccount
  /\ pc = "drain"
  /\ log = <<>>
  /\ \E now \in Clocks :
       hist = [published |-> 0, twin |-> [queue |-> <<>>, portfolio |-> BacktestPortfolio, execution |-> ExecutionAt(now), log |-> <<>>]]

\* engine.put(MarketEvent(symbol, data)): data is a Series (named by its timestamp) or a dict
RpPut ==
  /\ hist.published < MaxPublished
  /\ \E s \in Symbols, close \in Closes, name \in {hist.published + 1, NoTimestamp} :
       /\ queue' = Append(queue, MarketEvent(s, close, name))
       /\ hist' = [hist EXCEPT !.published = @ + 1, !.twin = put(@, MarketEvent(s, close, name))]
  /\ UNCHANGED <<backtest, active, current, handlers, portfolio, execution, data_handler, pc, log, account>>

\* one iteration of process_all_events in each run
RpDispatch ==
  /\ ~queue_empty(queue)
  /\ ~queue_empty(hist.twin.queue)
  /\ \E sig \in (IF Head(queue).type = "MARKET" THEN SignalChoices ELSE {"NONE"}) :
       LET w == process(handlers, [World EXCEPT !.queue = Tail(queue)], Head(queue), sig)
           w2 == process(handlers, [hist.twin EXCEPT !.queue = Tail(@)], Head(hist.twin.queue), sig)
       IN /\ queue' = w.queue
          /\ portfolio' = w.portfolio
          /\ execution' = w.execution
          /\ log' = w.log
          /\ hist' = [hist EXCEPT !.twin = w2]
  /\ UNCHANGED <<backtest, active, current, handlers, data_handler, pc, account>>

ReproNext == RpPut \/ RpDispatch

ReproSpec == RpInit /\ [][ReproNext]_vars

\* C21: reproducibility.  Two runs given the same capital, the same Market events and the
\* same strategy signals have the same events on their queues at every step (the same
\* orders and fills in the same order) and the same cash, positions, trade log and equity
\* history.
C21_Reproducible ==
  /\ queue = hist.twin.queue
  /\ portfolio = hist.twin.portfolio

(***************************************************************************)
(* RunSpec: EventEngine.run on a background thread, as backtest_demo       *)
(* starts it, while the main thread puts events and calls stop().  pc is   *)
(* the position of the thread in run, active the flag, current the event   *)
(* run took from the queue with the index of the handler __process calls   *)
(* next.  Every statement is a step, so that stop() and put() interleave   *)
(* with the loop at every point.                                           *)
(* hist: puts and stops count the main thread's calls, stop_pc is where    *)
(* run was when stop() was called, dequeued the events run took.           *)
(***************************************************************************)
MaxRunPuts == 2

RunHandlers == register(register(NoHandlers, "MARKET", "h1"), "MARKET", "h2")

process_stops_on_flag(i, hs, flag) == i <= Len(hs) /\ flag

\* for handler in self.__handlers[event.type]: the loop goes on whatever the flag is
process_continues(i, hs, flag) == i <= Len(hs)

RunInit ==
  /\ queue = <<>>
  /\ active = FALSE
  /\ backtest = NoBacktest
  /\ current = <<>>
  /\ handlers = RunHandlers
  /\ portfolio = BacktestPortfolio
  /\ execution = NewExecution
  /\ data_handler = [symbol_data |-> [s \in Symbols |-> 0], consumed |-> [s \in Symbols |-> 0], continue_backtest |-> FALSE]
  /\ account = NoAccount
  /\ pc = "start"
  /\ log = <<>>
  /\ hist = [puts |-> 0, stops |-> 0, stop_pc |-> "", dequeued |-> <<>>]

\* self.__active = True
RunSetActive ==
  /\ pc = "start"
  /\ active' = TRUE
  /\ pc' = "check"
  /\ UNCHANGED <<backtest, queue, handlers, portfolio, execution, data_handler, account, log, hist, current>>

\* while self.__active
RunCheck ==
  /\ pc = "check"
  /\ pc' = IF active THEN "get" ELSE "returned"
  /\ UNCHANGED <<backtest, queue, handlers, portfolio, execution, data_handler, account, log, hist, active, current>>

\* event = self.__queue.get(block=True, timeout=1), an event is there
RunGet ==
  /\ pc = "get"
  /\ queue # <<>>
  /\ queue' = Tail(queue)
  /\ hist' = [hist EXCEPT !.dequeued = Append(@, Head(queue))]
  /\ IF process_continues(1, handlers[Head(queue).type], active)
       THEN pc' = "process" /\ current' = <<Head(queue), 1>>
       ELSE pc' = "check" /\ current' = <<>>
  /\ UNCHANGED <<backtest, handlers, portfolio, execution, data_handler, account, log, active>>

\* the get times out: except queue.Empty: pass
RunTimeout ==
  /\ pc = "get"
  /\ queue = <<>>
  /\ pc' = "check"
  /\ UNCHANGED <<backtest, queue, handlers, portfolio, execution, data_handler, account, log, hist, active, current>>

\* handler(event) for the next handler of the event's type
RunDeliver ==
  /\ pc = "process"
  /\ log' = Call(handlers[current[1].type][current[2]], World, current[1], "NONE").log
  /\ IF process_continues(current[2] + 1, handlers[current[1].type], active)
       THEN pc' = pc /\ current' = <<current[1], current[2] + 1>>
       ELSE pc' = "check" /\ current' = <<>>
  /\ UNCHANGED <<backtest, queue, handlers, portfolio, execution, data_handler, account, hist, active>>

\* the main thread: engine.put(event), of a type with two handlers or of a type with none
MainPut ==
  /\ hist.puts < MaxRunPuts
  /\ \E event \in {MarketEvent(A_SHARE, 10 * Unit, hist.puts + 1), SignalEvent(A_SHARE, "LONG")} :
       queue' = Append(queue, event)
  /\ hist' = [hist EXCEPT !.puts = @ + 1]
  /\ UNCHANGED <<backtest, handlers, portfolio, execution, data_handler, account, pc, log, active, current>>

\* the main thread: engine.stop()
MainStop ==
  /\ hist.stops = 0
  /\ active' = FALSE
  /\ hist' = [hist EXCEPT !.stops = 1, !.stop_pc = pc]
  /\ UNCHANGED <<backtest, queue, handlers, portfolio, execution, data_handler, account, pc, log, current>>

RunThread == RunSetActive \/ RunCheck \/ RunGet \/ RunTimeout \/ RunDeliver

RunNext == RunSetActive \/ RunCheck \/ RunGet \/ RunTimeout \/ RunDeliver \/ MainPut \/ MainStop

RunSpec == RunInit /\ [][RunNext]_vars

\* the thread is scheduled and its handlers and its timed get return
RunFairSpec == RunInit /\ [][RunNext]_vars /\ WF_vars(RunThread)

\* the deliveries of the events in order, each to every handler of its type in order
RECURSIVE DeliveredAll(_)
DeliveredAll(events) ==
  IF events = <<>> THEN <<>>
  ELSE [i \in DOMAIN handlers[Head(events).type] |-> [handler |-> handlers[Head(events).type][i], event |-> Head(events)]]
         \o DeliveredAll(Tail(events))

\* C22: cooperative cancellation.  stop() changes the flag and nothing else; whenever run is
\* between two dequeues, and when it has returned, every event it took has been delivered
\* to all the handlers of its type (none is left half processed); once run has seen the
\* flag down it takes no further event and delivers nothing.
C22_CooperativeStop ==
  /\ [](pc \in {"check", "get", "returned"} => (current = <<>> /\ log = DeliveredAll(hist.dequeued)))
  /\ [][hist'.stops # hist.stops =>
          (/\ active' = FALSE /\ queue' = queue /\ pc' = pc /\ current' = current /\ log' = log)]_vars
  /\ [][pc = "returned" =>
          (/\ pc' = "returned" /\ log' = log /\ current' = current /\ hist'.dequeued = hist.dequeued)]_vars

\* stop() came while the first event was with its handlers: the event reached both of them,
\* the second event stayed on the queue, and run returned
C22_Witness ==
  /\ pc = "returned"
  /\ hist.stop_pc = "process"
  /\ Len(hist.dequeued) = 1
  /\ Len(log) = 2
  /\ Len(queue) = 1

\* C30: a stop() request is never lost: once stop() has been called, run returns.
C30_StopNotLost == (hist.stops > 0) ~> (pc = "returned")

\* C23: overdrawn cash is clamped.  After a buy fill whose total cost (quantity * price +
\* commission) exceeds the cash held before it, the cash is not negative.
C23_OverdrawClamped ==
  [][(/\ hist'.last.op = "fill"
      /\ hist'.last.direction = "BUY"
      /\ buy_total_cost(hist'.last.quantity * hist'.last.price, hist'.last.commission) > portfolio.current_cash)
     => portfolio'.current_cash >= 0]_vars

\* the value of every position at the latest price of its symbol
PositionsValue(pf) ==
  SumOver(DOMAIN pf.current_positions, [s \in DOMAIN pf.current_positions |-> pf.current_positions[s] * Get(pf.latest_prices, s, 0)])

MaxSbBars == 3

SbOpens == {10 * Unit, 11 * Unit}

SbCloses == {10 * Unit, 12 * Unit}

SbBars == [open : SbOpens, close : SbCloses]

SbCapital == 1000 * Unit

\* SimpleBacktest.__init__ with the signals the strategy will return
NewBacktest(data, signals) ==
  [data |-> data, signals |-> signals, allow_short |-> FALSE, i |-> 1, cash |-> SbCapital, position_shares |-> 0,
   position_side |-> 0, total_value |-> SbCapital, trades |-> <<>>, equity |-> <<>>]

\* SimpleBacktest._execute_trade
execute_trade(b, date, action, price, shares) ==
  LET trade_value == price * shares
      b1 == IF action = "BUY" THEN [b EXCEPT !.position_shares = @ + shares, !.cash = @ - trade_value, !.position_side = 1]
            ELSE IF action = "SELL" THEN [b EXCEPT !.position_shares = @ - shares, !.cash = @ + trade_value,
                                                   !.position_side = IF b.position_shares - shares = 0 THEN 0 ELSE @]
            ELSE IF action = "SHORT" THEN [b EXCEPT !.position_shares = @ - shares, !.cash = @ + trade_value, !.position_side = -1]
            ELSE [b EXCEPT !.position_shares = @ + shares, !.cash = @ - trade_value,
                           !.position_side = IF b.position_shares + shares = 0 THEN 0 ELSE @]
      total_value == b1.cash + b1.position_shares * price
  IN [b1 EXCEPT !.total_value = total_value,
                !.trades = Append(@, [datetime |-> date, action |-> action, price |-> price, shares |-> shares, cash |-> b1.cash, total_value |-> total_value])]

\* the bar a decision taken on bar i executes on: the next one, or bar i itself when it is the last
exec_index(b, i) == IF i + 1 <= Len(b.data) THEN i + 1 ELSE i

\* the price it executes at: the next bar's open, or the close of bar i when it is the last
exec_price(b, i) == IF i + 1 <= Len(b.data) THEN b.data[i + 1].open ELSE b.data[i].close

\* one iteration of the loop of run
run_bar(b) ==
  LET i == b.i
      current_signal == b.signals[i]
      price == exec_price(b, i)
      date == exec_index(b, i)
      b1 == IF b.position_side = 0
              THEN IF current_signal = 1
                     THEN IF b.cash \div price > 0 THEN execute_trade(b, date, "BUY", price, b.cash \div price) ELSE b
                   ELSE IF current_signal = -1 /\ b.allow_short
                     THEN IF b.total_value \div price > 0 THEN execute_trade(b, date, "SHORT", price, b.total_value \div price) ELSE b
                   ELSE b
            ELSE IF b.position_side = 1
              THEN IF current_signal # 1 /\ b.position_shares > 0 THEN execute_trade(b, date, "SELL", price, b.position_shares) ELSE b
            ELSE IF current_signal # -1 /\ Abs(b.position_shares) > 0 THEN execute_trade(b, date, "COVER", price, Abs(b.position_shares)) ELSE b
      total_value == b1.cash + b1.position_shares * b.data[i].close
  IN [b1 EXCEPT !.total_value = total_value,
                !.equity = Append(@, [datetime |-> i, cash |-> b1.cash, position_shares |-> b1.position_shares, price |-> b.data[i].close, total_value |-> total_value]),
                !.i = i + 1]

SbInit ==
  /\ queue = <<>>
  /\ active = FALSE
  /\ current = <<>>
  /\ handlers = NoHandlers
  /\ portfolio = BacktestPortfolio
  /\ execution = NewExecution
  /\ data_handler = [symbol_data |-> [s \in Symbols |-> 0], consumed |-> [s \in Symbols |-> 0], continue_backtest |-> FALSE]
  /\ account = NoAccount
  /\ pc = "run"
  /\ log = <<>>
  /\ hist = <<>>
  /\ \E n \in 1..MaxSbBars : \E data \in [1..n -> SbBars], signals \in [1..n -> {-1, 0, 1}] :
       backtest = NewBacktest(data, signals)

\* for i in range(len(self.data))
SbBar ==
  /\ pc = "run"
  /\ backtest.i <= Len(backtest.data)
  /\ backtest' = run_bar(backtest)
  /\ UNCHANGED <<queue, handlers, portfolio, execution, data_handler, account, pc, log, hist, active, current>>

\* the loop is over: run builds the equity curve and returns
SbReturn ==
  /\ pc = "run"
  /\ backtest.i > Len(backtest.data)
  /\ pc' = "done"
  /\ UNCHANGED <<backtest, queue, handlers, portfolio, execution, data_handler, account, log, hist, active, current>>

SbNext == SbBar \/ SbReturn

SbSpec == SbInit /\ [][SbNext]_vars

\* C25: a trade decided on bar i executes at the open of bar i+1 and is dated i+1; on the
\* last bar no trade is recorded and cash and position stay as they were.
C25_NextBarOpen ==
  [][backtest'.i # backtest.i =>
       IF backtest.i < Len(backtest.data)
         THEN Len(backtest'.trades) > Len(backtest.trades) =>
                (/\ backtest'.trades[Len(backtest'.trades)].price = backtest.data[backtest.i + 1].open
                 /\ backtest'.trades[Len(backtest'.trades)].datetime = backtest.i + 1)
         ELSE /\ backtest'.trades = backtest.trades
              /\ backtest'.cash = backtest.cash
              /\ backtest'.position_shares = backtest.position_shares]_vars

\* C26: in the wired pipeline, with short selling disabled, a SELL fill about to be applied
\* never exceeds the position held (the clamp of update_fill is not reached), the shares
\* reserved for sells of a symbol are between 0 and the position, and locked_cash >= 0.
C26_SellWithinPosition ==
  /\ (HeadIs("FILL") /\ Head(queue).direction = "SELL") => Head(queue).quantity <= Position(Head(queue).symbol)
  /\ \A s \in Symbols : 0 <= Pending(s) /\ Pending(s) <= Position(s)
  /\ portfolio.locked_cash >= 0

\* the fill of a sell of the whole position is about to be applied, the shares still reserved
C26_Witness ==
  /\ HeadIs("FILL")
  /\ Head(queue).direction = "SELL"
  /\ Head(queue).quantity > 0
  /\ Head(queue).quantity = Position(Head(queue).symbol)
  /\ Pending(Head(queue).symbol) = Head(queue).quantity

\* the run_backtest loop with process_all_events running to its return: the loop of
\* process_all_events is sequential code with no blocking call
DrainFairSpec == Init /\ [][Next]_vars /\ WF_vars(ProcessEvent \/ ProcessAllReturn)

\* the events of the given types, at most one of each, and no others
AtMostOneOfEach(events, types) ==
  /\ \A i \in DOMAIN events : events[i].type \in types
  /\ \A t \in types : CountType(events, t) <= 1

\* C27: the drain terminates.  A dispatch removes the head and appends, for a Market event at
\* most one Signal and at most one Order, for a Signal at most one Order, for an Order at
\* most one Fill, for a Fill nothing; and process_all_events, once entered, returns.
C27_DrainTerminates ==
  /\ [][(pc = "drain" /\ queue # <<>>) =>
          (/\ SubSeq(queue', 1, Len(queue) - 1) = Tail(queue)
           /\ AtMostOneOfEach(SubSeq(queue', Len(queue), Len(queue')),
                               CASE Head(queue).type = "MARKET" -> {"SIGNAL", "ORDER"}
                                 [] Head(queue).type = "SIGNAL" -> {"ORDER"}
                                 [] Head(queue).type = "ORDER" -> {"FILL"}
                                 [] OTHER -> {}))]_vars
  /\ (pc = "drain") ~> (pc = "loop")

\* a Market event has produced both a strategy signal and a risk-exit order for its symbol
C27_Witness ==
  /\ pc = "drain"
  /\ \E i, j \in DOMAIN queue :
       /\ queue[i].type = "SIGNAL"
       /\ queue[j].type = "ORDER"
       /\ queue[j].direction = "SELL"
       /\ queue[j].symbol = queue[i].symbol

\* C28: Account.buy charges for what it delivers.  After a successful buy the cash has
\* fallen by price * shares added * (1 + commission_rate), where shares added is the growth
\* of the position's total_volume; a failed buy changes neither cash nor positions.
C28_ChargedForDelivered ==
  [][(hist'.trades # hist.trades /\ hist'.last.op = "buy") =>
       LET added == TotalVolume(account', hist'.last.code) - TotalVolume(account, hist'.last.code)
       IN IF hist'.last.ok
            THEN account.cash - account'.cash = hist'.last.price * added + FracMul(hist'.last.price * added, account_commission_rate)
            ELSE account' = account]_vars

Mark(s) == Get(portfolio.high_water_marks, s, 0)

\* C29: high-water mark.  A symbol has a mark only while its position is > 0.  While the
\* position stays held the mark does not decrease; after a buy fill it is at least the fill
\* price and after a market update of a held symbol at least the close, so it is at least
\* the entry price and every close since entry.  A sell fill that brings the position to 0
\* removes the mark, and a buy fill from position 0 sets it to its own fill price.
C29_HighWaterMark ==
  /\ [](\A s \in DOMAIN portfolio.high_water_marks : Position(s) > 0)
  /\ [][\A s \in PfSymbols :
          /\ (Position(s) > 0 /\ Get(portfolio'.current_positions, s, 0) > 0) =>
                Get(portfolio'.high_water_marks, s, 0) >= Mark(s)
          /\ (hist'.ops # hist.ops /\ hist'.last.symbol = s /\ Get(portfolio'.current_positions, s, 0) > 0) =>
                (/\ s \in DOMAIN portfolio'.high_water_marks
                 /\ hist'.last.op \in {"market", "fill"} /\ hist'.last.direction # "SELL" =>
                       portfolio'.high_water_marks[s] >= hist'.last.price
                 /\ hist'.last.op = "fill" /\ hist'.last.direction = "BUY" /\ Position(s) = 0 =>
                       portfolio'.high_water_marks[s] = hist'.last.price)
          /\ (hist'.ops # hist.ops /\ hist'.last.op = "fill" /\ hist'.last.symbol = s /\ hist'.last.direction = "SELL"
                /\ Get(portfolio'.current_positions, s, 0) = 0) =>
                s \notin DOMAIN portfolio'.high_water_marks]_vars

\* a position entered at 12, sold out (the mark removed), and entered again at 10: the mark
\* is 10, below the mark of the first entry
C29_Witness ==
  /\ hist.last.op = "fill"
  /\ hist.last.direction = "BUY"
  /\ hist.last.pos_before = 0
  /\ hist.last.price = 10 * Unit
  /\ Mark(hist.last.symbol) = 10 * Unit
  /\ \E i \in DOMAIN portfolio.trade_history :
       /\ portfolio.trade_history[i].symbol = hist.last.symbol
       /\ portfolio.trade_history[i].direction = "BUY"
       /\ portfolio.trade_history[i].price = 12 * Unit
  /\ \E i \in DOMAIN portfolio.trade_history :
       /\ portfolio.trade_history[i].symbol = hist.last.symbol
       /\ portfolio.trade_history[i].direction = "SELL"

====
